---- MODULE Spec2Model ----
(***************************************************************************)
(* JSON Visual Editor: the App component (canonical value `data`, document *)
(* text `text`, `parseError`, the text parse effect, handleFormat,         *)
(* updateDataFromTree, handleSchemaChange, togglePane), the TreeView       *)
(* component (flattenJson, parseInputValue, EditableNode, visibleNodes,    *)
(* toggleNode) and the TextView component (expressionValidator, the ajv    *)
(* validation cycle, the markers, and the two debounced effects).          *)
(*                                                                         *)
(* Strings are sequences of one-character strings, so that trim, slice,    *)
(* startsWith, JSON.parse, JSON.stringify, Number() and String() are       *)
(* computed character by character as the JavaScript operations do.        *)
(***************************************************************************)
EXTENDS Integers, Sequences, FiniteSets, TLC

(***************************************************************************)
(* Bounds of the model.                                                    *)
(***************************************************************************)
\* longest leaf-edit string enumerated character by character
MaxLen == 3
\* longest path handed to updateDataFromTree when it is checked on its own
\* the delay of a timer (the 500 ms of setTimeout), in ticks of the clock
Delay == 2

MaxPathLen == 2

(***************************************************************************)
(* Characters.                                                             *)
(***************************************************************************)
DQ == "\""
BSL == "\\"
NL == "\n"
SP == " "

Digits == {"0", "1", "2", "3", "4", "5", "6", "7", "8", "9"}

DigitVal(c) ==
  CASE c = "0" -> 0 [] c = "1" -> 1 [] c = "2" -> 2 [] c = "3" -> 3
    [] c = "4" -> 4 [] c = "5" -> 5 [] c = "6" -> 6 [] c = "7" -> 7
    [] c = "8" -> 8 [] c = "9" -> 9
    [] c \in {"a", "A"} -> 10 [] c \in {"b", "B"} -> 11
    [] c \in {"c", "C"} -> 12 [] c \in {"d", "D"} -> 13
    [] c \in {"e", "E"} -> 14 [] c \in {"f", "F"} -> 15
    [] OTHER -> 99

DigitChar(d) ==
  CASE d = 0 -> "0" [] d = 1 -> "1" [] d = 2 -> "2" [] d = 3 -> "3"
    [] d = 4 -> "4" [] d = 5 -> "5" [] d = 6 -> "6" [] d = 7 -> "7"
    [] d = 8 -> "8" [] OTHER -> "9"

\* the white space String.prototype.trim, Number() and JSON.parse skip
\* (of the characters the model uses)
WhiteSpace == {" ", "\n", "\t", "\r"}

Abs(x) == IF x < 0 THEN -x ELSE x

\* `const v = ...; Body`: the value is computed once and named in Body
With(v, Body(_)) == Body(v)

RECURSIVE Pow10(_)
Pow10(n) == IF n <= 0 THEN 1 ELSE 10 * Pow10(n - 1)

\* the decimal digits of a natural number, as characters
RECURSIVE DigitsOf(_)
DigitsOf(n) ==
  IF n < 10 THEN <<DigitChar(n)>>
  ELSE Append(DigitsOf(n \div 10), DigitChar(n % 10))

RECURSIVE Zeros(_)
Zeros(n) == IF n <= 0 THEN <<>> ELSE <<"0">> \o Zeros(n - 1)

\* first index >= i of s that is not a digit of the given base (Len(s)+1 if none)
RECURSIVE ScanDigits(_, _, _)
ScanDigits(s, i, base) ==
  IF i <= Len(s) /\ DigitVal(s[i]) < base THEN ScanDigits(s, i + 1, base) ELSE i

\* value of the digits s[i..j-1] in the given base
RECURSIVE DigitsValue(_, _, _, _)
DigitsValue(s, i, j, base) ==
  IF j <= i THEN 0
  ELSE DigitsValue(s, i, j - 1, base) * base + DigitVal(s[j - 1])

\* String.prototype.trim
RECURSIVE TrimLeft(_)
TrimLeft(s) ==
  IF s # <<>> /\ Head(s) \in WhiteSpace THEN TrimLeft(Tail(s)) ELSE s

RECURSIVE TrimRight(_)
TrimRight(s) ==
  IF s # <<>> /\ s[Len(s)] \in WhiteSpace
  THEN TrimRight(SubSeq(s, 1, Len(s) - 1)) ELSE s

Trim(s) == TrimRight(TrimLeft(s))

\* whether s has the word w at index i
HasAt(s, i, w) ==
  /\ i + Len(w) - 1 <= Len(s)
  /\ SubSeq(s, i, i + Len(w) - 1) = w

(***************************************************************************)
(* Values.  One record shape for every JSON value; `ref` is the identity   *)
(* of an object or array (0 for a primitive, and for a composite that has  *)
(* not been allocated yet), `kids` its own properties in enumeration       *)
(* order.  A number is m * 10^e with m free of trailing zeros, or one of   *)
(* the non-finite numbers (sp).                                            *)
(***************************************************************************)
Val(t, b, m, e, sp, s, ref, kids) ==
  [t |-> t, b |-> b, m |-> m, e |-> e, sp |-> sp, s |-> s, ref |-> ref,
   kids |-> kids]

VNull == Val("null", FALSE, 0, 0, "fin", <<>>, 0, <<>>)
VUndefined == Val("undefined", FALSE, 0, 0, "fin", <<>>, 0, <<>>)
VBool(b) == Val("boolean", b, 0, 0, "fin", <<>>, 0, <<>>)
VStr(s) == Val("string", FALSE, 0, 0, "fin", s, 0, <<>>)
VSpecial(sp) == Val("number", FALSE, 0, 0, sp, <<>>, 0, <<>>)
VObj(ref, kids) == Val("object", FALSE, 0, 0, "fin", <<>>, ref, kids)
VArr(ref, kids) == Val("array", FALSE, 0, 0, "fin", <<>>, ref, kids)

Entry(k, v) == [k |-> k, v |-> v]

\* typeof v === 'object' && v !== null
IsComposite(v) == v.t \in {"object", "array"}

\* m * 10^e without trailing zeros in m
RECURSIVE Normalise(_, _)
Normalise(m, e) ==
  IF m = 0 THEN [m |-> 0, e |-> 0]
  ELSE IF m % 10 = 0 THEN Normalise(m \div 10, e + 1)
  ELSE [m |-> m, e |-> e]

\* The double nearest to (-1)^neg * m * 10^e, for mantissas of at most nine
\* digits: beyond the largest double (1.7976931348623157e308) it is an
\* infinity, below the smallest it is zero, and in between the decimal
\* digits are kept (a double holds fifteen).  The sign of zero is not kept.
NumberFrom(neg, m0, e0) ==
  With(Normalise(m0, e0), LAMBDA r :
  With(Len(DigitsOf(r.m)), LAMBDA k :
    LET n == k + r.e
    IN  IF r.m = 0 THEN Val("number", FALSE, 0, 0, "fin", <<>>, 0, <<>>)
        ELSE IF n > 309 \/ (n = 309 /\ r.m * Pow10(9 - k) >= 179769314)
          THEN VSpecial(IF neg THEN "-inf" ELSE "inf")
        ELSE IF n < -323
          THEN Val("number", FALSE, 0, 0, "fin", <<>>, 0, <<>>)
        ELSE Val("number", FALSE, IF neg THEN -r.m ELSE r.m, r.e, "fin",
                 <<>>, 0, <<>>)))

VNum(n) == NumberFrom(n < 0, Abs(n), 0)

\* Number::toString(x) in radix 10, the algorithm of the language standard
NumberToString(v) ==
  IF v.sp = "nan" THEN <<"N", "a", "N">>
  ELSE IF v.sp = "inf" THEN <<"I", "n", "f", "i", "n", "i", "t", "y">>
  ELSE IF v.sp = "-inf" THEN <<"-", "I", "n", "f", "i", "n", "i", "t", "y">>
  ELSE IF v.m = 0 THEN <<"0">>
  ELSE
    With(DigitsOf(Abs(v.m)), LAMBDA d :
    With(Len(d), LAMBDA k :
    With(k + v.e, LAMBDA n :
      (IF v.m < 0 THEN <<"-">> ELSE <<>>) \o
      (IF k <= n /\ n <= 21 THEN d \o Zeros(n - k)
       ELSE IF 0 < n /\ n <= 21
         THEN SubSeq(d, 1, n) \o <<".">> \o SubSeq(d, n + 1, k)
       ELSE IF -6 < n /\ n <= 0 THEN <<"0", ".">> \o Zeros(-n) \o d
       ELSE
         With(<<"e", IF n - 1 < 0 THEN "-" ELSE "+">> \o DigitsOf(Abs(n - 1)),
              LAMBDA ex :
           IF k = 1 THEN d \o ex
           ELSE <<d[1], ".">> \o SubSeq(d, 2, k) \o ex)))))

\* An unsigned decimal literal starting at index i of s:
\*   digits [. digits] [e [+-] digits]      (strict: JSON.parse)
\*   digits [. [digits]] | . digits, then the exponent   (~strict: Number())
\* [ok, m, e, j]: j is the index after the literal.
DecimalAt(s, i, strict) ==
  With(ScanDigits(s, i, 10), LAMBDA j1 :
  With(j1 <= Len(s) /\ s[j1] = ".", LAMBDA hasDot :
  With(IF hasDot THEN ScanDigits(s, j1 + 1, 10) ELSE j1, LAMBDA j2 :
  With(IF hasDot THEN j2 - (j1 + 1) ELSE 0, LAMBDA fracLen :
  With(j2 <= Len(s) /\ s[j2] \in {"e", "E"}, LAMBDA hasExp :
  With(hasExp /\ j2 + 1 <= Len(s) /\ s[j2 + 1] \in {"+", "-"}, LAMBDA hasSign :
  With(IF hasSign THEN j2 + 2 ELSE j2 + 1, LAMBDA x1 :
  With(IF hasExp THEN ScanDigits(s, x1, 10) ELSE j2, LAMBDA x2 :
    [ok |-> /\ IF strict
               THEN /\ j1 - i >= 1
                    /\ (j1 - i = 1 \/ s[i] # "0")
                    /\ (hasDot => fracLen >= 1)
               ELSE (j1 - i) + fracLen >= 1
            /\ (~hasExp \/ x2 > x1),
     m |-> DigitsValue(s, i, j1, 10) * Pow10(fracLen)
           + (IF hasDot THEN DigitsValue(s, j1 + 1, j2, 10) ELSE 0),
     e |-> (IF hasExp /\ x2 > x1
            THEN (IF hasSign /\ s[j2 + 1] = "-" THEN -1 ELSE 1)
                 * DigitsValue(s, x1, x2, 10)
            ELSE 0) - fracLen,
     j |-> x2]))))))))

\* Number(s): StringToNumber of the language standard
NumberOfString(s0) ==
  With(Trim(s0), LAMBDA s :
  With(Len(s), LAMBDA n :
  With(IF n >= 2 /\ s[1] = "0"
       THEN (CASE s[2] \in {"x", "X"} -> 16
               [] s[2] \in {"o", "O"} -> 8
               [] s[2] \in {"b", "B"} -> 2
               [] OTHER -> 10)
       ELSE 10, LAMBDA radix :
  With(n >= 1 /\ s[1] = "-", LAMBDA neg :
  With(IF n >= 1 /\ s[1] \in {"+", "-"} THEN 2 ELSE 1, LAMBDA i :
    IF n = 0 THEN VNum(0)
    ELSE IF radix # 10
      THEN IF n >= 3 /\ ScanDigits(s, 3, radix) = n + 1
           THEN VNum(DigitsValue(s, 3, n + 1, radix))
           ELSE VSpecial("nan")
    ELSE IF SubSeq(s, i, n) = <<"I", "n", "f", "i", "n", "i", "t", "y">>
      THEN VSpecial(IF neg THEN "-inf" ELSE "inf")
    ELSE With(DecimalAt(s, i, FALSE), LAMBDA d :
           IF d.ok /\ d.j = n + 1 THEN NumberFrom(neg, d.m, d.e)
           ELSE VSpecial("nan")))))))

(***************************************************************************)
(* Own properties of an object, in the order JavaScript enumerates them    *)
(* (Object.entries, JSON.stringify): array-index keys first, in ascending  *)
(* numeric order, then the other keys in the order they were created.      *)
(***************************************************************************)
\* a canonical array index (at most nine digits, so that it is below 2^32 - 1)
IsIndexKey(k) ==
  /\ Len(k) >= 1 /\ Len(k) <= 9
  /\ \A i \in 1..Len(k) : k[i] \in Digits
  /\ (Len(k) = 1 \/ k[1] # "0")

IndexOf(k) == DigitsValue(k, 1, Len(k) + 1, 10)

HasKey(kids, k) == \E i \in 1..Len(kids) : kids[i].k = k

KeyPos(kids, k) == CHOOSE i \in 1..Len(kids) : kids[i].k = k

\* the value of property k (undefined when there is none)
GetProp(kids, k) == IF HasKey(kids, k) THEN kids[KeyPos(kids, k)].v ELSE VUndefined

\* number of leading entries of kids that enumerate before a new key k
RECURSIVE InsertPos(_, _, _)
InsertPos(kids, k, i) ==
  IF i > Len(kids) THEN Len(kids)
  ELSE IF IsIndexKey(k)
    THEN IF IsIndexKey(kids[i].k) /\ IndexOf(kids[i].k) < IndexOf(k)
         THEN InsertPos(kids, k, i + 1) ELSE i - 1
  ELSE Len(kids)

\* obj[k] = v on the own properties of an ordinary object
SetProp(kids, k, v) ==
  IF HasKey(kids, k) THEN [kids EXCEPT ![KeyPos(kids, k)] = Entry(k, v)]
  ELSE LET p == InsertPos(kids, k, 1)
       IN  SubSeq(kids, 1, p) \o <<Entry(k, v)>> \o SubSeq(kids, p + 1, Len(kids))

\* the length of an array: its index properties come first and, with the
\* empty slots PadTo records, leave no gap
RECURSIVE ArrayLength(_, _)
ArrayLength(kids, i) ==
  IF i <= Len(kids) /\ IsIndexKey(kids[i].k) THEN ArrayLength(kids, i + 1) ELSE i - 1

(***************************************************************************)
(* JSON.parse, on the characters of the text.  The composites of the       *)
(* result carry ref 0; AllocRefs gives each a reference of its own.        *)
(* The escapes \b and \uXXXX do not occur in the texts of the model.       *)
(***************************************************************************)
Fail == [ok |-> FALSE, v |-> VNull, j |-> 0]

RECURSIVE SkipWs(_, _)
SkipWs(s, i) ==
  IF i <= Len(s) /\ s[i] \in WhiteSpace THEN SkipWs(s, i + 1) ELSE i

Unescape(c) ==
  CASE c = DQ -> DQ [] c = BSL -> BSL [] c = "/" -> "/" [] c = "n" -> NL
    [] c = "t" -> "\t" [] c = "r" -> "\r" [] c = "f" -> "\f"
    [] OTHER -> ""

\* the characters of a string literal, from the index after its opening quote
RECURSIVE ParseChars(_, _, _)
ParseChars(s, i, acc) ==
  IF i > Len(s) THEN Fail
  ELSE IF s[i] = DQ THEN [ok |-> TRUE, v |-> VStr(acc), j |-> i + 1]
  ELSE IF s[i] \in {NL, "\t", "\r", "\f"} THEN Fail
  ELSE IF s[i] = BSL
    THEN IF i + 1 <= Len(s) /\ Unescape(s[i + 1]) # ""
         THEN ParseChars(s, i + 2, Append(acc, Unescape(s[i + 1])))
         ELSE Fail
  ELSE ParseChars(s, i + 1, Append(acc, s[i]))

ParseNumberAt(s, i) ==
  With(DecimalAt(s, IF s[i] = "-" THEN i + 1 ELSE i, TRUE), LAMBDA d :
    IF d.ok
    THEN [ok |-> TRUE, v |-> NumberFrom(s[i] = "-", d.m, d.e), j |-> d.j]
    ELSE Fail)

RECURSIVE ParseValueAt(_, _)
RECURSIVE ParseMembers(_, _, _)
RECURSIVE ParseElements(_, _, _)

\* a JSON value that starts at or after index i, after white space
ParseValueAt(s, i0) ==
  With(SkipWs(s, i0), LAMBDA i :
  With(SkipWs(s, i + 1), LAMBDA n :
    IF i > Len(s) THEN Fail
    ELSE IF s[i] = "{"
      THEN IF n <= Len(s) /\ s[n] = "}"
           THEN [ok |-> TRUE, v |-> VObj(0, <<>>), j |-> n + 1]
           ELSE ParseMembers(s, i + 1, <<>>)
    ELSE IF s[i] = "["
      THEN IF n <= Len(s) /\ s[n] = "]"
           THEN [ok |-> TRUE, v |-> VArr(0, <<>>), j |-> n + 1]
           ELSE ParseElements(s, i + 1, <<>>)
    ELSE IF s[i] = DQ THEN ParseChars(s, i + 1, <<>>)
    ELSE IF s[i] = "-" \/ s[i] \in Digits THEN ParseNumberAt(s, i)
    ELSE IF HasAt(s, i, <<"t", "r", "u", "e">>)
      THEN [ok |-> TRUE, v |-> VBool(TRUE), j |-> i + 4]
    ELSE IF HasAt(s, i, <<"f", "a", "l", "s", "e">>)
      THEN [ok |-> TRUE, v |-> VBool(FALSE), j |-> i + 5]
    ELSE IF HasAt(s, i, <<"n", "u", "l", "l">>)
      THEN [ok |-> TRUE, v |-> VNull, j |-> i + 4]
    ELSE Fail))

\* the members of an object from index i0 (a member is required there);
\* a repeated key keeps its first place and takes the last value
ParseMembers(s, i0, kids) ==
  With(SkipWs(s, i0), LAMBDA i :
  With(IF i <= Len(s) /\ s[i] = DQ THEN ParseChars(s, i + 1, <<>>) ELSE Fail,
       LAMBDA key :
  With(SkipWs(s, key.j), LAMBDA c :
  With(IF key.ok /\ c <= Len(s) /\ s[c] = ":"
       THEN ParseValueAt(s, c + 1) ELSE Fail, LAMBDA val :
  With(SkipWs(s, val.j), LAMBDA e :
  With(SetProp(kids, key.v.s, val.v), LAMBDA kids2 :
      IF ~val.ok \/ e > Len(s) THEN Fail
      ELSE IF s[e] = "," THEN ParseMembers(s, e + 1, kids2)
      ELSE IF s[e] = "}" THEN [ok |-> TRUE, v |-> VObj(0, kids2), j |-> e + 1]
      ELSE Fail))))))

\* the elements of an array from index i0 (an element is required there)
ParseElements(s, i0, kids) ==
  With(ParseValueAt(s, i0), LAMBDA val :
  With(SkipWs(s, val.j), LAMBDA e :
  With(Append(kids, Entry(DigitsOf(Len(kids)), val.v)), LAMBDA kids2 :
      IF ~val.ok \/ e > Len(s) THEN Fail
      ELSE IF s[e] = "," THEN ParseElements(s, e + 1, kids2)
      ELSE IF s[e] = "]" THEN [ok |-> TRUE, v |-> VArr(0, kids2), j |-> e + 1]
      ELSE Fail)))

\* JSON.parse(s): ok is FALSE where it throws a SyntaxError
JSONparse(s) ==
  With(ParseValueAt(s, 1), LAMBDA r :
    IF r.ok /\ SkipWs(s, r.j) = Len(s) + 1
    THEN [ok |-> TRUE, v |-> r.v] ELSE [ok |-> FALSE, v |-> VNull])

(***************************************************************************)
(* JSON.stringify(v, null, 2)                                              *)
(***************************************************************************)
RECURSIVE Indent(_)
Indent(n) == IF n <= 0 THEN <<>> ELSE <<SP, SP>> \o Indent(n - 1)

EscapeChar(c) ==
  CASE c = DQ -> <<BSL, DQ>> [] c = BSL -> <<BSL, BSL>> [] c = NL -> <<BSL, "n">>
    [] c = "\t" -> <<BSL, "t">> [] c = "\r" -> <<BSL, "r">>
    [] c = "\f" -> <<BSL, "f">> [] OTHER -> <<c>>

RECURSIVE EscapeChars(_)
EscapeChars(s) ==
  IF s = <<>> THEN <<>> ELSE EscapeChar(Head(s)) \o EscapeChars(Tail(s))

\* QuoteJSONString
Quote(s) == <<DQ>> \o EscapeChars(s) \o <<DQ>>

NullWord == <<"n", "u", "l", "l">>

RECURSIVE Serialize(_, _)
RECURSIVE SerializeKids(_, _, _, _)

\* SerializeJSONProperty with the gap of two spaces, at nesting depth ind
Serialize(v, ind) ==
  CASE v.t = "null" -> NullWord
    [] v.t = "undefined" -> NullWord
    [] v.t = "boolean" ->
         IF v.b THEN <<"t", "r", "u", "e">> ELSE <<"f", "a", "l", "s", "e">>
    [] v.t = "number" -> IF v.sp = "fin" THEN NumberToString(v) ELSE NullWord
    [] v.t = "string" -> Quote(v.s)
    [] v.t = "object" ->
         With(SerializeKids(v.kids, 1, ind + 1, TRUE), LAMBDA body :
           IF body = <<>> THEN <<"{", "}">>
           ELSE <<"{", NL>> \o body \o <<NL>> \o Indent(ind) \o <<"}">>)
    [] v.t = "array" ->
         With(SerializeKids(SubSeq(v.kids, 1, ArrayLength(v.kids, 1)),
                            1, ind + 1, FALSE), LAMBDA body :
           IF body = <<>> THEN <<"[", "]">>
           ELSE <<"[", NL>> \o body \o <<NL>> \o Indent(ind) \o <<"]">>)

\* the members from the i-th on, separated by ",\n"; a member of an object
\* whose value is undefined is left out, an element of an array is null
SerializeKids(kids, i, ind, named) ==
  IF i > Len(kids) THEN <<>>
  ELSE
    With(SerializeKids(kids, i + 1, ind, named), LAMBDA rest :
    With(Indent(ind)
         \o (IF named THEN Quote(kids[i].k) \o <<":", SP>> ELSE <<>>)
         \o Serialize(kids[i].v, ind), LAMBDA this :
      IF named /\ kids[i].v.t = "undefined" THEN rest
      ELSE IF rest = <<>> THEN this
      ELSE this \o <<",", NL>> \o rest))

JSONstringify(v) == Serialize(v, 0)

(***************************************************************************)
(* References.                                                             *)
(***************************************************************************)
RECURSIVE Refs(_)
RECURSIVE RefsOfKids(_, _)
\* the references of the objects and arrays of v
Refs(v) == IF IsComposite(v) THEN {v.ref} \cup RefsOfKids(v.kids, 1) ELSE {}
RefsOfKids(kids, i) ==
  IF i > Len(kids) THEN {} ELSE Refs(kids[i].v) \cup RefsOfKids(kids, i + 1)

RECURSIVE Strip(_)
RECURSIVE StripKids(_, _)
\* the content of v, references left out: two values are deeply equal when
\* their contents are equal
Strip(v) == IF IsComposite(v) THEN [v EXCEPT !.ref = 0, !.kids = StripKids(v.kids, 1)] ELSE v
StripKids(kids, i) ==
  IF i > Len(kids) THEN <<>>
  ELSE <<Entry(kids[i].k, Strip(kids[i].v))>> \o StripKids(kids, i + 1)

DeepEqual(v, w) == Strip(v) = Strip(w)

\* the n-th smallest positive number not in used
RECURSIVE NthFree(_, _, _)
NthFree(used, n, c) ==
  IF c \in used THEN NthFree(used, n, c + 1)
  ELSE IF n = 1 THEN c ELSE NthFree(used, n - 1, c + 1)

RECURSIVE CountNew(_)
RECURSIVE CountNewInKids(_, _)
\* number of objects and arrays of v that have no reference yet
CountNew(v) ==
  IF IsComposite(v) /\ v.ref = 0 THEN 1 + CountNewInKids(v.kids, 1) ELSE 0
CountNewInKids(kids, i) ==
  IF i > Len(kids) THEN 0 ELSE CountNew(kids[i].v) + CountNewInKids(kids, i + 1)

RECURSIVE AllocFrom(_, _, _)
RECURSIVE AllocKids(_, _, _, _)
\* v with its new composites given, in pre-order, the n-th, (n+1)-th, ... free
\* reference; a composite that has a reference keeps it, with all below it
AllocFrom(v, used, n) ==
  IF IsComposite(v) /\ v.ref = 0
  THEN [v EXCEPT !.ref = NthFree(used, n, 1),
                 !.kids = AllocKids(v.kids, 1, used, n + 1)]
  ELSE v
AllocKids(kids, i, used, n) ==
  IF i > Len(kids) THEN <<>>
  ELSE <<Entry(kids[i].k, AllocFrom(kids[i].v, used, n))>>
       \o AllocKids(kids, i + 1, used, n + CountNew(kids[i].v))

\* Every newly constructed object and array of v (ref 0) becomes an object of
\* its own: its reference differs from the others and from every reference
\* in used.
AllocRefs(v, used) == AllocFrom(v, used, 1)

(***************************************************************************)
(* TreeView: flattenJson                                                   *)
(***************************************************************************)
\* Array.prototype.join
RECURSIVE Join(_, _)
Join(path, sep) ==
  IF path = <<>> THEN <<>>
  ELSE IF Len(path) = 1 THEN path[1]
  ELSE path[1] \o sep \o Join(Tail(path), sep)

RECURSIVE flattenJson(_, _, _)
RECURSIVE FlattenEntries(_, _, _, _)
\* The path segment of an array element is parseInt(key), a number; it is
\* kept here as the decimal string of that number, which is what join('.')
\* and the property access current[path[i]] make of it.
flattenJson(json, path, depth) ==
  IF ~IsComposite(json) THEN <<>>
  ELSE FlattenEntries(json.kids, 1, path, depth)
\* a flattenJson that lists a node after its children
FlattenEntries_childrenFirst(kids, i, path, depth) ==
  IF i > Len(kids) THEN <<>>
  ELSE IF kids[i].v.t = "undefined"
    THEN FlattenEntries(kids, i + 1, path, depth)
  ELSE
    With(Append(path, kids[i].k), LAMBDA newPath :
      (IF IsComposite(kids[i].v)
       THEN flattenJson(kids[i].v, newPath, depth + 1) ELSE <<>>)
      \o <<[id |-> Join(newPath, <<".">>), depth |-> depth, key |-> kids[i].k,
            value |-> kids[i].v, type |-> kids[i].v.t,
            hasChildren |-> IsComposite(kids[i].v),
            childrenCount |->
              IF IsComposite(kids[i].v)
              THEN Cardinality({j \in 1..Len(kids[i].v.kids) :
                                  kids[i].v.kids[j].v.t # "undefined"})
              ELSE 0,
            path |-> newPath]>>
      \o FlattenEntries(kids, i + 1, path, depth))
FlattenEntries(kids, i, path, depth) ==
  IF i > Len(kids) THEN <<>>
  ELSE IF kids[i].v.t = "undefined"   \* an empty slot is no own property
    THEN FlattenEntries(kids, i + 1, path, depth)
  ELSE
    With(kids[i].k, LAMBDA key :
    With(kids[i].v, LAMBDA value :
    With(Append(path, key), LAMBDA newPath :
    With(IsComposite(value), LAMBDA hasChildren :
    With([id |-> Join(newPath, <<".">>), depth |-> depth, key |-> key,
          value |-> value, type |-> value.t, hasChildren |-> hasChildren,
          childrenCount |->
            IF hasChildren
            THEN Cardinality({j \in 1..Len(value.kids) :
                                value.kids[j].v.t # "undefined"})
            ELSE 0,
          path |-> newPath], LAMBDA currentNode :
    With(IF hasChildren THEN flattenJson(value, newPath, depth + 1) ELSE <<>>,
         LAMBDA childrenNodes :
      <<currentNode>> \o childrenNodes
        \o FlattenEntries(kids, i + 1, path, depth)))))))

RootKey == <<"r", "o", "o", "t">>

\* TreeView.flattenedNodes: flattenJson({ root: data })
flattenedNodesOf(d) == flattenJson(VObj(0, <<Entry(RootKey, d)>>), <<>>, 0)

(***************************************************************************)
(* TreeView: parseInputValue                                               *)
(***************************************************************************)
parseInputValue(input) ==
  With(Trim(input), LAMBDA trimmed :
    IF trimmed = <<"n", "u", "l", "l">> THEN [success |-> TRUE, value |-> VNull]
    ELSE IF trimmed = <<"t", "r", "u", "e">>
      THEN [success |-> TRUE, value |-> VBool(TRUE)]
    ELSE IF trimmed = <<"f", "a", "l", "s", "e">>
      THEN [success |-> TRUE, value |-> VBool(FALSE)]
    ELSE IF trimmed # <<>> /\ trimmed[1] = DQ /\ trimmed[Len(trimmed)] = DQ
      THEN [success |-> TRUE,
            value |-> VStr(SubSeq(trimmed, 2, Len(trimmed) - 1))]
    ELSE With(NumberOfString(trimmed), LAMBDA num :
      IF trimmed # <<>> /\ num.sp # "nan" /\ NumberToString(num) = trimmed
      THEN [success |-> TRUE, value |-> num]
      ELSE [success |-> FALSE, value |-> VNull]))

(***************************************************************************)
(* App: updateDataFromTree, that is immer's produce with the recipe of     *)
(* lines 192-197.                                                          *)
(***************************************************************************)
UndefinedKey == <<"u", "n", "d", "e", "f", "i", "n", "e", "d">>

\* current[seg], read
GetMember(cur, seg) ==
  IF IsComposite(cur) THEN GetProp(cur.kids, seg)
  ELSE IF cur.t = "string" /\ IsIndexKey(seg) /\ IndexOf(seg) < Len(cur.s)
    THEN VStr(<<cur.s[IndexOf(seg) + 1]>>)
  ELSE VUndefined

\* kids with empty slots up to index n - 1
RECURSIVE PadTo(_, _)
PadTo(kids, n) ==
  IF ArrayLength(kids, 1) >= n THEN kids
  ELSE PadTo(SetProp(kids, DigitsOf(ArrayLength(kids, 1)), VUndefined), n)

Thrown == [fault |-> TRUE, changed |-> FALSE, v |-> VNull]

\* current[seg] = value on a draft.  An assignment of the value the property
\* already has leaves the draft unmodified.  A property of an array that is
\* no index is refused by the development build of immer and set by the
\* production build.  Assigning to a property of undefined, of null or (in
\* module code, which is strict) of a primitive throws a TypeError.
AssignMember(cur, seg, value, dev) ==
  IF ~IsComposite(cur) THEN Thrown
  ELSE IF cur.t = "array" /\ ~IsIndexKey(seg) /\ dev THEN Thrown
  ELSE IF HasKey(cur.kids, seg) /\ GetProp(cur.kids, seg) = value
    THEN [fault |-> FALSE, changed |-> FALSE, v |-> cur]
  ELSE
    LET kids == IF cur.t = "array" /\ IsIndexKey(seg)
                THEN PadTo(cur.kids, IndexOf(seg)) ELSE cur.kids
    IN  [fault |-> FALSE, changed |-> TRUE,
         v |-> [cur EXCEPT !.ref = 0, !.kids = SetProp(kids, seg, value)]]

RECURSIVE Recipe(_, _, _, _, _)
\* The recipe from the i-th segment on, with current = cur.  A modified
\* draft and every draft above it are finalised as copies (ref 0 until the
\* copy is allocated); everything else keeps the object of the base.
Recipe(cur, path, i, value, dev) ==
  IF i < Len(path)
  THEN IF cur.t \in {"null", "undefined"} THEN Thrown
       ELSE With(Recipe(GetMember(cur, path[i]), path, i + 1, value, dev),
                 LAMBDA r :
              IF r.fault \/ ~r.changed THEN [r EXCEPT !.v = cur]
              ELSE [fault |-> FALSE, changed |-> TRUE,
                    v |-> [cur EXCEPT !.ref = 0,
                                      !.kids = SetProp(cur.kids, path[i], r.v)]])
  ELSE AssignMember(cur, IF path = <<>> THEN UndefinedKey ELSE path[Len(path)],
                    value, dev)

\* a produce that returns a deep copy
produce_copiesAll(base, path, value, used, dev) ==
  IF ~IsComposite(base) THEN [fault |-> FALSE, v |-> base]
  ELSE With(Recipe(base, path, 1, value, dev), LAMBDA r :
         [fault |-> r.fault,
          v |-> IF r.fault THEN base ELSE AllocRefs(Strip(r.v), used)])

\* produce(data, recipe): [fault, v]; fault when the recipe throws.  A base
\* that is no object or array is handed to the recipe as it is; the recipe
\* returns at once (line 192) and produce returns the base.
produce(base, path, value, used, dev) ==
  IF ~IsComposite(base) THEN [fault |-> FALSE, v |-> base]
  ELSE With(Recipe(base, path, 1, value, dev), LAMBDA r :
         [fault |-> r.fault,
          v |-> IF r.fault THEN base ELSE AllocRefs(r.v, used)])

(***************************************************************************)
(* TreeView: the expansion map, visibleNodes, EditableNode                 *)
(***************************************************************************)
\* expanded[id] ?? dflt, for a map kept as a function on the stored ids
Lookup(map, id, dflt) == IF id \in DOMAIN map THEN map[id] ELSE dflt

\* Array.prototype.filter
RECURSIVE Filter(_, _, _)
Filter(nodes, i, map) ==
  IF i > Len(nodes) THEN <<>>
  ELSE With(nodes[i], LAMBDA node :
       With(Join(SubSeq(node.path, 1, Len(node.path) - 1), <<".">>),
            LAMBDA parentPath :
         (IF node.depth <= 1 \/ Lookup(map, parentPath, FALSE)
          THEN <<node>> ELSE <<>>)
         \o Filter(nodes, i + 1, map)))

\* TreeView.visibleNodes
visibleNodesOf(nodes, map) == Filter(nodes, 1, map)

\* a toggleNode that forgets the spread of prev
toggleNode_dropsOthers(map, id) == [k \in {id} |-> ~Lookup(map, id, FALSE)]

\* toggleNode: { ...prev, [id]: !prev[id] }
toggleNode(map, id) ==
  [k \in DOMAIN map \cup {id} |->
     IF k = id THEN ~Lookup(map, id, FALSE) ELSE map[k]]

\* Node: isExpanded = expanded[node.id] ?? (node.depth === 0), the state the
\* toggler of the node shows
isExpanded(map, node) == Lookup(map, node.id, node.depth = 0)

\* EditableNode.getInitialValue
getInitialValue(node) ==
  IF node.type = "string" THEN Quote(node.value.s)
  ELSE IF node.type = "number" THEN NumberToString(node.value)
  ELSE JSONstringify(node.value)

(***************************************************************************)
(* TextView: the expression check.  parse of @babel/parser is modelled on  *)
(* the strings of the model: operands of digits joined by +, with blanks   *)
(* between the tokens; the empty script parses.  A failure carries the     *)
(* message of the SyntaxError, which names the column of the failure.      *)
(***************************************************************************)
RECURSIVE SkipBlanks(_, _)
SkipBlanks(s, i) ==
  IF i <= Len(s) /\ s[i] = SP THEN SkipBlanks(s, i + 1) ELSE i

\* a message: its words, and the characters it quotes
Message(text, arg) == [text |-> text, arg |-> arg]

\* validator.error is null
NullError == Message("", <<>>)

Unexpected(col) ==
  [ok |-> FALSE,
   message |-> Message("Unexpected token", <<"(", "1", ":", DigitChar(col), ")">>)]

\* the tokens from index i0; operand: an operand has to come next
RECURSIVE ExpressionAt(_, _, _)
ExpressionAt(s, i0, operand) ==
  With(SkipBlanks(s, i0), LAMBDA i :
    IF i > Len(s)
    THEN IF operand THEN Unexpected(i - 1)
         ELSE [ok |-> TRUE, message |-> NullError]
    ELSE IF operand
      THEN IF s[i] \in Digits THEN ExpressionAt(s, ScanDigits(s, i, 10), FALSE)
           ELSE IF s[i] = "+" THEN ExpressionAt(s, i + 1, TRUE)
           ELSE Unexpected(i - 1)
    ELSE IF s[i] = "+" THEN ExpressionAt(s, i + 1, TRUE)
    ELSE [ok |-> FALSE,
          message |-> Message("Missing semicolon.",
                              <<"(", "1", ":", DigitChar(i - 1), ")">>)])

\* parse(data, { sourceType: 'script' }): ok is FALSE where it throws
parse(s) ==
  IF SkipBlanks(s, 1) > Len(s) THEN [ok |-> TRUE, message |-> NullError]
  ELSE ExpressionAt(s, 1, TRUE)

\* expressionValidator: the result, and validator.error after the call
expressionValidator(s) ==
  With(parse(s), LAMBDA r :
    [valid |-> r.ok, error |-> IF r.ok THEN NullError ELSE r.message])

(***************************************************************************)
(* TextView: ajv.  The keywords of the model are type, minimum, format,    *)
(* items, required and properties; a keyword ajv does not know is logged   *)
(* and ignored (strict: "log").  The only format of the schemas of the     *)
(* model that ajv knows is the format expression added by TextView.        *)
(***************************************************************************)
KType == <<"t", "y", "p", "e">>
KMinimum == <<"m", "i", "n", "i", "m", "u", "m">>
KFormat == <<"f", "o", "r", "m", "a", "t">>
KItems == <<"i", "t", "e", "m", "s">>
KRequired == <<"r", "e", "q", "u", "i", "r", "e", "d">>
KProperties == <<"p", "r", "o", "p", "e", "r", "t", "i", "e", "s">>
FExpression == <<"e", "x", "p", "r", "e", "s", "s", "i", "o", "n">>

SimpleTypes ==
  {<<"a", "r", "r", "a", "y">>, <<"b", "o", "o", "l", "e", "a", "n">>,
   <<"i", "n", "t", "e", "g", "e", "r">>, <<"n", "u", "l", "l">>,
   <<"n", "u", "m", "b", "e", "r">>, <<"o", "b", "j", "e", "c", "t">>,
   <<"s", "t", "r", "i", "n", "g">>}

Formats == {FExpression}

\* a < b for two finite numbers
NumLess(a, b) ==
  With(IF a.e < b.e THEN a.e ELSE b.e, LAMBDA e :
    a.m * Pow10(a.e - e) < b.m * Pow10(b.e - e))

\* the value of the keyword type is a name of a type, or a list of names
TypeWellFormed(t) ==
  \/ t.t = "string" /\ t.s \in SimpleTypes
  \/ /\ t.t = "array" /\ t.kids # <<>>
     /\ \A i \in 1..Len(t.kids) :
          /\ t.kids[i].v.t = "string" /\ t.kids[i].v.s \in SimpleTypes
          /\ \A j \in 1..(i - 1) : t.kids[j].v.s # t.kids[i].v.s

\* ajv.compile(schema) throws: the schema is no object and no boolean, a
\* keyword has a value the meta-schema does not allow, or a format is unknown
RECURSIVE CompileFaults(_)
CompileFaults(schema) ==
  IF schema.t = "boolean" THEN FALSE
  ELSE IF schema.t # "object" THEN TRUE
  ELSE With(schema.kids, LAMBDA kw :
    \/ HasKey(kw, KType) /\ ~TypeWellFormed(GetProp(kw, KType))
    \/ HasKey(kw, KMinimum) /\ GetProp(kw, KMinimum).t # "number"
    \/ /\ HasKey(kw, KFormat)
       /\ \/ GetProp(kw, KFormat).t # "string"
          \/ GetProp(kw, KFormat).s \notin Formats
    \/ /\ HasKey(kw, KRequired)
       /\ \/ GetProp(kw, KRequired).t # "array"
          \/ \E i \in 1..Len(GetProp(kw, KRequired).kids) :
               GetProp(kw, KRequired).kids[i].v.t # "string"
    \/ /\ HasKey(kw, KItems)
       /\ \/ GetProp(kw, KItems).t = "array"
             /\ \E i \in 1..Len(GetProp(kw, KItems).kids) :
                  CompileFaults(GetProp(kw, KItems).kids[i].v)
          \/ GetProp(kw, KItems).t # "array"
             /\ CompileFaults(GetProp(kw, KItems))
    \/ /\ HasKey(kw, KProperties)
       /\ \/ GetProp(kw, KProperties).t # "object"
          \/ \E i \in 1..Len(GetProp(kw, KProperties).kids) :
               CompileFaults(GetProp(kw, KProperties).kids[i].v))

\* the data is of the type named
IsOfType(name, d) ==
  IF name = <<"i", "n", "t", "e", "g", "e", "r">>
  THEN d.t = "number" /\ d.e >= 0
  ELSE d.t \in {"null", "boolean", "number", "string", "array", "object"}
       /\ name = CASE d.t = "null" -> <<"n", "u", "l", "l">>
                   [] d.t = "boolean" -> <<"b", "o", "o", "l", "e", "a", "n">>
                   [] d.t = "number" -> <<"n", "u", "m", "b", "e", "r">>
                   [] d.t = "string" -> <<"s", "t", "r", "i", "n", "g">>
                   [] d.t = "array" -> <<"a", "r", "r", "a", "y">>
                   [] OTHER -> <<"o", "b", "j", "e", "c", "t">>

\* the token of a JSON pointer for a key: ~ becomes ~0 and / becomes ~1
RECURSIVE EscapePointer(_)
EscapePointer(k) ==
  IF k = <<>> THEN <<>>
  ELSE (IF Head(k) = "~" THEN <<"~", "0">>
        ELSE IF Head(k) = "/" THEN <<"~", "1">> ELSE <<Head(k)>>)
       \o EscapePointer(Tail(k))

\* an error object of ajv
ErrorObject(instancePath, keyword, format, message) ==
  [instancePath |-> instancePath, keyword |-> keyword, format |-> format,
   message |-> message]

\* the result of a validation: the errors so far and validator.error
Errors(errors, error) == [errors |-> errors, error |-> error]

RECURSIVE validate(_, _, _, _)
RECURSIVE validateItems(_, _, _, _, _)
RECURSIVE validateRequired(_, _, _, _, _)
RECURSIVE validateProperties(_, _, _, _, _)

\* the keyword type
validateType(kw, d, instancePath, acc) ==
  IF HasKey(kw, KType)
     /\ ~(IF GetProp(kw, KType).t = "string"
          THEN IsOfType(GetProp(kw, KType).s, d)
          ELSE \E i \in 1..Len(GetProp(kw, KType).kids) :
                 IsOfType(GetProp(kw, KType).kids[i].v.s, d))
  THEN Errors(Append(acc.errors,
                ErrorObject(instancePath, "type", <<>>,
                  Message("must be",
                    IF GetProp(kw, KType).t = "string"
                    THEN GetProp(kw, KType).s
                    ELSE Join([i \in 1..Len(GetProp(kw, KType).kids) |->
                                 GetProp(kw, KType).kids[i].v.s], <<",">>)))),
              acc.error)
  ELSE acc

\* the keyword minimum, for a number
validateMinimum(kw, d, instancePath, acc) ==
  IF d.t = "number" /\ HasKey(kw, KMinimum)
     /\ NumLess(d, GetProp(kw, KMinimum))
  THEN Errors(Append(acc.errors,
                ErrorObject(instancePath, "minimum", <<>>,
                  Message("must be >=",
                          NumberToString(GetProp(kw, KMinimum))))),
              acc.error)
  ELSE acc

\* the keyword format, for a string: the call of expressionValidator
validateFormat(kw, d, instancePath, acc) ==
  IF d.t = "string" /\ HasKey(kw, KFormat)
  THEN With(expressionValidator(d.s), LAMBDA r :
         Errors(IF r.valid THEN acc.errors
                ELSE Append(acc.errors,
                       ErrorObject(instancePath, "format",
                         GetProp(kw, KFormat).s,
                         Message("must match format",
                                 GetProp(kw, KFormat).s))),
                r.error))
  ELSE acc

\* the keyword items, for the elements of an array from the i-th
validateItems(items, d, i, instancePath, acc) ==
  IF i > Len(d.kids) THEN acc
  ELSE validateItems(items, d, i + 1, instancePath,
         validate(IF items.t = "array"
                  THEN (IF i <= Len(items.kids) THEN items.kids[i].v
                        ELSE VBool(TRUE))
                  ELSE items,
                  d.kids[i].v,
                  instancePath \o <<"/">> \o d.kids[i].k, acc))

\* the keyword required, from its i-th name
validateRequired(names, d, i, instancePath, acc) ==
  IF i > Len(names) THEN acc
  ELSE validateRequired(names, d, i + 1, instancePath,
         IF HasKey(d.kids, names[i].v.s) THEN acc
         ELSE Errors(Append(acc.errors,
                       ErrorObject(instancePath, "required", <<>>,
                         Message("must have required property",
                                 names[i].v.s))),
                     acc.error))

\* the keyword properties, from its i-th property
validateProperties(props, d, i, instancePath, acc) ==
  IF i > Len(props) THEN acc
  ELSE validateProperties(props, d, i + 1, instancePath,
         IF HasKey(d.kids, props[i].k)
         THEN validate(props[i].v, GetProp(d.kids, props[i].k),
                       instancePath \o <<"/">> \o EscapePointer(props[i].k),
                       acc)
         ELSE acc)

\* the validating function of a schema, with allErrors: the type first, then
\* the keywords for the type the data has
validate(schema, d, instancePath, acc) ==
  IF schema.t = "boolean"
  THEN IF schema.b THEN acc
       ELSE Errors(Append(acc.errors,
                     ErrorObject(instancePath, "false schema", <<>>,
                       Message("boolean schema is false", <<>>))),
                   acc.error)
  ELSE With(schema.kids, LAMBDA kw :
       With(validateFormat(kw, d, instancePath,
              validateMinimum(kw, d, instancePath,
                validateType(kw, d, instancePath, acc))), LAMBDA a :
         IF d.t = "array" /\ HasKey(kw, KItems)
         THEN validateItems(GetProp(kw, KItems), d, 1, instancePath, a)
         ELSE IF d.t = "object"
         THEN With(IF HasKey(kw, KRequired)
                   THEN validateRequired(GetProp(kw, KRequired).kids, d, 1,
                                         instancePath, a)
                   ELSE a, LAMBDA b :
                IF HasKey(kw, KProperties)
                THEN validateProperties(GetProp(kw, KProperties).kids, d, 1,
                                        instancePath, b)
                ELSE b)
         ELSE a))

(***************************************************************************)
(* TextView: from an error to a marker.                                    *)
(***************************************************************************)
\* String.prototype.split(sep) for a separator of one character
RECURSIVE Split(_, _, _, _)
Split(s, sep, i, cur) ==
  IF i > Len(s) THEN <<cur>>
  ELSE IF s[i] = sep THEN <<cur>> \o Split(s, sep, i + 1, <<>>)
  ELSE Split(s, sep, i + 1, Append(cur, s[i]))

NotFound == [found |-> FALSE, offset |-> 0, length |-> 0]

\* jsonc.findNodeAtLocation(jsonc.parseTree(text), path) for a text that is
\* valid JSON and a path of strings: a string segment is looked up among the
\* properties of an object (the first of that key), and no other node has
\* one.  The node is given by its offset and length in the text.
RECURSIVE findNodeAtLocation(_, _, _, _)
RECURSIVE findProperty(_, _, _, _)
findNodeAtLocation(s, i0, path, k) ==
  With(SkipWs(s, i0), LAMBDA i :
    IF k > Len(path)
    THEN [found |-> TRUE, offset |-> i - 1,
          length |-> ParseValueAt(s, i).j - i]
    ELSE IF s[i] = "{" THEN findProperty(s, i + 1, path, k)
    ELSE NotFound)

findProperty(s, i0, path, k) ==
  With(SkipWs(s, i0), LAMBDA i :
    IF s[i] # DQ THEN NotFound
    ELSE With(ParseChars(s, i + 1, <<>>), LAMBDA key :
         With(SkipWs(s, key.j) + 1, LAMBDA v :
         With(SkipWs(s, ParseValueAt(s, v).j), LAMBDA e :
           IF key.v.s = path[k] THEN findNodeAtLocation(s, v, path, k + 1)
           ELSE IF s[e] = "," THEN findProperty(s, e + 1, path, k)
           ELSE NotFound))))

\* model.getPositionAt(offset), the model holding the text s
getPositionAt(s, offset) ==
  With({i \in 1..offset : s[i] = NL}, LAMBDA breaks :
    [lineNumber |-> 1 + Cardinality(breaks),
     column |-> 1 + offset
                - (IF breaks = {} THEN 0
                   ELSE CHOOSE i \in breaks : \A j \in breaks : j <= i)])

\* the message of the marker of an error, validator.error being `error`
MarkerMessage(e, error) ==
  IF e.keyword = "format" /\ e.format = FExpression /\ error # NullError
  THEN [prefix |-> "Invalid expression: ", text |-> error.text,
        arg |-> error.arg, keyword |-> ""]
  ELSE [prefix |-> "", text |-> e.message.text, arg |-> e.message.arg,
        keyword |-> e.keyword]

\* validate.errors.map(...).filter(m => m !== null), from the i-th error
RECURSIVE MarkersOf(_, _, _, _)
MarkersOf(errors, i, value, error) ==
  IF i > Len(errors) THEN <<>>
  ELSE With(findNodeAtLocation(value, 1,
              Tail(Split(errors[i].instancePath, "/", 1, <<>>)), 1),
            LAMBDA node :
         (IF node.found
          THEN <<[message |-> MarkerMessage(errors[i], error),
                  start |-> getPositionAt(value, node.offset),
                  end |-> getPositionAt(value, node.offset + node.length)]>>
          ELSE <<>>)
         \o MarkersOf(errors, i + 1, value, error))

\* a callback that keeps the markers when a text is not valid JSON
ValidationCycle_keepsOnSyntaxError(value, schema, shown, error) ==
  With(JSONparse(schema), LAMBDA s :
  With(JSONparse(value), LAMBDA d :
    IF ~s.ok \/ ~d.ok
    THEN [fault |-> FALSE, markers |-> shown, error |-> error]
    ELSE IF CompileFaults(s.v)
    THEN [fault |-> TRUE, markers |-> shown, error |-> error]
    ELSE With(validate(s.v, d.v, <<>>, Errors(<<>>, error)), LAMBDA r :
           [fault |-> FALSE,
            markers |-> MarkersOf(r.errors, 1, value, r.error),
            error |-> r.error])))

\* a callback that adds its markers to the ones shown
ValidationCycle_patches(value, schema, shown, error) ==
  With(JSONparse(schema), LAMBDA s :
  With(JSONparse(value), LAMBDA d :
    IF ~s.ok \/ ~d.ok
    THEN [fault |-> FALSE, markers |-> <<>>, error |-> error]
    ELSE IF CompileFaults(s.v)
    THEN [fault |-> TRUE, markers |-> shown, error |-> error]
    ELSE With(validate(s.v, d.v, <<>>, Errors(<<>>, error)), LAMBDA r :
           [fault |-> FALSE,
            markers |-> shown \o MarkersOf(r.errors, 1, value, r.error),
            error |-> r.error])))

\* the callback of the validation timer for the document text `value` and
\* the schema text `schema`: whether it throws, the markers of the model
\* after it and validator.error after it
ValidationCycle(value, schema, shown, error) ==
  With(JSONparse(schema), LAMBDA s :
  With(JSONparse(value), LAMBDA d :
    IF ~s.ok \/ ~d.ok
    THEN [fault |-> FALSE, markers |-> <<>>, error |-> error]
    ELSE IF CompileFaults(s.v)
    THEN [fault |-> TRUE, markers |-> shown, error |-> error]
    ELSE With(validate(s.v, d.v, <<>>, Errors(<<>>, error)), LAMBDA r :
           [fault |-> FALSE,
            markers |-> MarkersOf(r.errors, 1, value, r.error),
            error |-> r.error])))

(***************************************************************************)
(* The documents and inputs of the model.                                  *)
(***************************************************************************)
\* initialJson, abbreviated to its members expression and age
initialJson ==
  <<"{", DQ, "e", "x", "p", "r", "e", "s", "s", "i", "o", "n", DQ, ":", DQ,
    "1", SP, "+", SP, "2", DQ, ",", DQ, "a", "g", "e", DQ, ":", "3", "0", "}">>

\* initialSchema, abbreviated to the properties expression and age
initialSchema ==
  <<"{", DQ, "p", "r", "o", "p", "e", "r", "t", "i", "e", "s", DQ, ":", "{",
    DQ, "e", "x", "p", "r", "e", "s", "s", "i", "o", "n", DQ, ":", "{",
    DQ, "f", "o", "r", "m", "a", "t", DQ, ":",
    DQ, "e", "x", "p", "r", "e", "s", "s", "i", "o", "n", DQ, "}", ",",
    DQ, "a", "g", "e", DQ, ":", "{",
    DQ, "m", "i", "n", "i", "m", "u", "m", DQ, ":", "1", "8", "}", "}", "}">>

\* {"b":[[1],2]}
DocNested ==
  <<"{", DQ, "b", DQ, ":", "[", "[", "1", "]", ",", "2", "]", "}">>
\* a document that is a single number, with a leading blank
DocScalar == <<SP, "5">>
\* {"a":   (a text cut short)
DocCut == <<"{", DQ, "a", DQ, ":">>

\* the texts the user leaves in the text editor
DocTexts == {DocNested, DocScalar, DocCut}

\* the strings the user types into the input of a leaf
EditInputs ==
  {<<"7">>, <<"I", "n", "f", "i", "n", "i", "t", "y">>, <<"0", "7">>, <<>>}

NoError == "null"
NoId == <<"-">>
NoEdit == [active |-> FALSE, base |-> VNull, path |-> <<>>, value |-> VNull]
NoCall == [fn |-> "none"]
NoDeps == [run |-> FALSE, value |-> <<>>, schemaText |-> <<>>, monaco |-> FALSE]
NoLangDeps == [run |-> FALSE, schemaText |-> <<>>, monaco |-> FALSE]
NoDiagnostics == [set |-> FALSE, schemas |-> <<>>]

(***************************************************************************)
(* State.  data, text, parseError: the state of App.  effectPending: the   *)
(* text parse effect is scheduled (text changed in the last render).       *)
(* expanded, editingId: the state of TreeView.  editValue: the state of    *)
(* the EditableNode being edited.  lastOp, lastEdit record the run: the    *)
(* last step and the last tree edit (until the next user event).  call:    *)
(* the arguments and result of a function checked on its own.              *)
(* schemaText, visiblePanes: the state of App beside the document.         *)
(* monaco: the editor library is loaded (useMonaco).  timers: the timeouts *)
(* of TextView that are pending, each with the values its callback closes  *)
(* over and the ticks left.  markers: the markers of owner ajv-validation  *)
(* on the model of the text editor.  diagnostics: the options of the JSON  *)
(* language service.  validatorError: expressionValidator.error.  valDeps, *)
(* langDeps: the dependencies the two effects of TextView last ran with.   *)
(* sinceTextChange: the ticks of the clock since the document text was     *)
(* last set.                                                               *)
(***************************************************************************)
VARIABLES data, text, parseError, effectPending, expanded, editingId,
          editValue, lastOp, lastEdit, call,
          schemaText, visiblePanes, monaco, timers, markers, diagnostics,
          validatorError, valDeps, langDeps, sinceTextChange

\* the state of TextView and of its timers
viewVars == <<monaco, timers, markers, diagnostics, validatorError, valDeps,
              langDeps>>

vars == <<data, text, parseError, effectPending, expanded, editingId,
          editValue, lastOp, lastEdit, call, schemaText, visiblePanes,
          viewVars, sinceTextChange>>

\* the clock of the document text starts again when the text is set
Clock == sinceTextChange' = IF text' # text THEN 0 ELSE sinceTextChange

flattenedNodes == flattenedNodesOf(data)
visibleNodes == visibleNodesOf(flattenedNodes, expanded)

\* every reference a value of the run still holds
LiveRefs == Refs(data) \cup (IF lastEdit.active THEN Refs(lastEdit.base) ELSE {})

\* the user can act: the effects of the last render have run
Idle == ~effectPending

\* TreeView is mounted and renders the list (and not the error)
TreeShown == visiblePanes.tree /\ parseError = NoError

InitApp ==
  /\ data = AllocRefs(JSONparse(initialJson).v, {})
  /\ text = JSONstringify(JSONparse(initialJson).v)
  /\ parseError = NoError
  /\ effectPending = TRUE
  /\ expanded = [k \in {RootKey} |-> TRUE]
  /\ editingId = NoId
  /\ editValue = <<>>
  /\ lastOp = "init"
  /\ lastEdit = NoEdit
  /\ schemaText = JSONstringify(JSONparse(initialSchema).v)
  /\ visiblePanes = [tree |-> TRUE, text |-> TRUE, schema |-> TRUE]

\* TextView after the first render: no effect has run, nothing is pending
InitView ==
  /\ monaco = FALSE
  /\ timers = {}
  /\ markers = <<>>
  /\ diagnostics = NoDiagnostics
  /\ validatorError = NullError
  /\ valDeps = NoDeps
  /\ langDeps = NoLangDeps
  /\ sinceTextChange = 0

Init == InitApp /\ InitView /\ call = NoCall

\* a parse effect that clears data when the text does not parse
TextParseEffect_clearsData ==
  /\ effectPending
  /\ \E r \in {JSONparse(text)} :
       IF r.ok
       THEN /\ data' = AllocRefs(r.v, LiveRefs)
            /\ parseError' = NoError
            /\ lastOp' = "parsed"
       ELSE /\ data' = VNull
            /\ parseError' = "SyntaxError"
            /\ lastOp' = "parseFailed"
  /\ effectPending' = FALSE
  /\ UNCHANGED <<text, expanded, editingId, editValue, lastEdit, call>>
  /\ UNCHANGED <<schemaText, visiblePanes, viewVars>>
  /\ Clock

\* a parse effect that does not report the text that fails to parse
TextParseEffect_silentFailure ==
  /\ effectPending
  /\ \E r \in {JSONparse(text)} :
       IF r.ok
       THEN /\ data' = AllocRefs(r.v, LiveRefs)
            /\ parseError' = NoError
            /\ lastOp' = "parsed"
       ELSE /\ lastOp' = "parseFailed"
            /\ UNCHANGED <<data, parseError>>
  /\ effectPending' = FALSE
  /\ UNCHANGED <<text, expanded, editingId, editValue, lastEdit, call>>
  /\ UNCHANGED <<schemaText, visiblePanes, viewVars>>
  /\ Clock

\* App, useEffect(..., [text])
TextParseEffect ==
  /\ effectPending
  /\ \E r \in {JSONparse(text)} :
       IF r.ok
       THEN /\ data' = AllocRefs(r.v, LiveRefs)
            /\ parseError' = NoError
            /\ lastOp' = "parsed"
       ELSE /\ parseError' = "SyntaxError"
            /\ lastOp' = "parseFailed"
            /\ UNCHANGED data
  /\ effectPending' = FALSE
  /\ UNCHANGED <<text, expanded, editingId, editValue, lastEdit, call>>
  /\ UNCHANGED <<schemaText, visiblePanes, viewVars>>
  /\ Clock

\* App.handleTextChange, with the text the editor holds after the change
handleTextChange(value) ==
  /\ Idle /\ editingId = NoId
  /\ value # text
  /\ text' = value
  /\ effectPending' = TRUE
  /\ lastOp' = "textChange"
  /\ lastEdit' = NoEdit
  /\ UNCHANGED <<data, parseError, expanded, editingId, editValue, call>>
  /\ UNCHANGED <<schemaText, visiblePanes, viewVars>>
  /\ Clock

\* App.handleFormat: the document text, then the schema text, each with its
\* own alert
handleFormat ==
  /\ Idle /\ editingId = NoId
  /\ \E r \in {JSONparse(text)} : \E q \in {JSONparse(schemaText)} :
       /\ text' = IF Trim(text) # <<>> /\ r.ok
                  THEN JSONstringify(r.v) ELSE text
       /\ schemaText' = IF Trim(schemaText) # <<>> /\ q.ok
                        THEN JSONstringify(q.v) ELSE schemaText
       /\ lastOp' = IF Trim(text) # <<>> /\ ~r.ok THEN "formatAlert"
                    ELSE IF Trim(schemaText) # <<>> /\ ~q.ok
                         THEN "formatSchemaAlert" ELSE "format"
  /\ effectPending' = (text' # text)
  /\ lastEdit' = NoEdit
  /\ UNCHANGED <<data, parseError, expanded, editingId, editValue, call>>
  /\ UNCHANGED <<visiblePanes, viewVars>>
  /\ Clock

\* TreeView.toggleNode, from the click on the toggler of a visible composite
ToggleClick(i) ==
  /\ Idle /\ TreeShown /\ editingId = NoId
  /\ i \in 1..Len(visibleNodes)
  /\ visibleNodes[i].hasChildren
  /\ expanded' = toggleNode(expanded, visibleNodes[i].id)
  /\ lastOp' = "toggle"
  /\ lastEdit' = NoEdit
  /\ UNCHANGED <<data, text, parseError, effectPending, editingId, editValue, call>>
  /\ UNCHANGED <<schemaText, visiblePanes, viewVars>>
  /\ Clock

\* the click on the value of a visible leaf: onEditStart, then the effect of
\* EditableNode that loads the input
EditStart(i) ==
  /\ Idle /\ TreeShown /\ editingId = NoId
  /\ i \in 1..Len(visibleNodes)
  /\ ~visibleNodes[i].hasChildren
  /\ editingId' = visibleNodes[i].id
  /\ editValue' = getInitialValue(visibleNodes[i])
  /\ lastOp' = "editStart"
  /\ lastEdit' = NoEdit
  /\ UNCHANGED <<data, text, parseError, effectPending, expanded, call>>
  /\ UNCHANGED <<schemaText, visiblePanes, viewVars>>
  /\ Clock

\* the input's onChange
EditType(s) ==
  /\ Idle /\ TreeShown /\ editingId # NoId
  /\ s # editValue
  /\ editValue' = s
  /\ lastOp' = "editType"
  /\ UNCHANGED <<data, text, parseError, effectPending, expanded, editingId,
                 lastEdit, call>>
  /\ UNCHANGED <<schemaText, visiblePanes, viewVars>>
  /\ Clock

\* an updateDataFromTree that serialises the value before the edit
updateDataFromTree_staleText(d, path, value, used, dev) ==
  With(produce(d, path, value, used, dev), LAMBDA r :
    [fault |-> r.fault, data |-> r.v, text |-> JSONstringify(d)])

\* App.updateDataFromTree: the new state of data and text, or a fault
\* (dev: the development build of immer is the one bundled)
updateDataFromTree(d, path, value, used, dev) ==
  With(produce(d, path, value, used, dev), LAMBDA r :
    [fault |-> r.fault, data |-> r.v, text |-> JSONstringify(r.v)])

\* a commitChange that does not look at parsed.success
commitChange_ignoresSuccess(i) ==
  /\ Idle /\ TreeShown /\ editingId # NoId
  /\ \E node \in {n \in {visibleNodes[j] : j \in {i} \cap DOMAIN visibleNodes} :
                     n.id = editingId /\ ~n.hasChildren} :
     \E parsed \in {parseInputValue(editValue)} :
     \E path \in {SubSeq(node.path, 2, Len(node.path))} :
       IF JSONstringify(node.value) # JSONstringify(parsed.value)
       THEN \E u \in {updateDataFromTree(data, path, parsed.value, LiveRefs,
                                          TRUE)} :
            /\ ~u.fault
            /\ data' = u.data
            /\ text' = u.text
            /\ effectPending' = (u.text # text)
            /\ lastEdit' = [active |-> TRUE, base |-> data,
                            path |-> path, value |-> parsed.value]
            /\ editingId' = NoId
            /\ editValue' = <<>>
            /\ lastOp' = "commit"
       ELSE /\ editingId' = NoId
            /\ editValue' = <<>>
            /\ lastOp' = "commitSame"
            /\ UNCHANGED <<data, text, effectPending, lastEdit>>
  /\ UNCHANGED <<parseError, expanded, call>>
  /\ UNCHANGED <<schemaText, visiblePanes, viewVars>>
  /\ Clock

\* EditableNode.commitChange (Enter, or the input losing the focus), with
\* either build of immer.  When onUpdate throws, onEditStart is not reached
\* and no state is set.
commitChange(i) ==
  /\ Idle /\ TreeShown /\ editingId # NoId
  /\ \E node \in {n \in {visibleNodes[j] : j \in {i} \cap DOMAIN visibleNodes} :
                     n.id = editingId /\ ~n.hasChildren} :
     \E parsed \in {parseInputValue(editValue)} :
     \E path \in {SubSeq(node.path, 2, Len(node.path))} :
       IF parsed.success
          /\ JSONstringify(node.value) # JSONstringify(parsed.value)
       THEN \E dev \in BOOLEAN :
            \E u \in {updateDataFromTree(data, path, parsed.value, LiveRefs, dev)} :
            IF u.fault
            THEN /\ lastOp' = "fault"
                 /\ UNCHANGED <<data, text, effectPending, editingId,
                                editValue, lastEdit>>
            ELSE /\ data' = u.data
                 /\ text' = u.text
                 /\ effectPending' = (u.text # text)
                 /\ lastEdit' = [active |-> TRUE, base |-> data,
                                 path |-> path, value |-> parsed.value]
                 /\ editingId' = NoId
                 /\ editValue' = <<>>
                 /\ lastOp' = "commit"
       ELSE /\ editingId' = NoId
            /\ editValue' = <<>>
            /\ lastOp' = IF parsed.success THEN "commitSame" ELSE "commitRejected"
            /\ UNCHANGED <<data, text, effectPending, lastEdit>>
  /\ UNCHANGED <<parseError, expanded, call>>
  /\ UNCHANGED <<schemaText, visiblePanes, viewVars>>
  /\ Clock

\* EditableNode.handleKeyDown, Escape
EditEscape ==
  /\ Idle /\ TreeShown /\ editingId # NoId
  /\ editingId' = NoId
  /\ editValue' = <<>>
  /\ lastOp' = "escape"
  /\ UNCHANGED <<data, text, parseError, effectPending, expanded, lastEdit, call>>
  /\ UNCHANGED <<schemaText, visiblePanes, viewVars>>
  /\ Clock

\* App.handleSchemaChange, with the text the schema editor holds after the
\* change
handleSchemaChange(value) ==
  /\ Idle /\ editingId = NoId
  /\ visiblePanes.schema
  /\ value # schemaText
  /\ schemaText' = value
  /\ lastOp' = "schemaChange"
  /\ lastEdit' = NoEdit
  /\ UNCHANGED <<data, text, parseError, effectPending, expanded, editingId,
                 editValue, call, visiblePanes, viewVars>>
  /\ Clock

\* App.togglePane and the render that follows: a pane that is hidden is
\* unmounted.  TreeView loses its state (the next mount starts from the
\* initial state); TextView runs the cleanups of its effects, and its editor
\* disposes the model with its markers.
togglePane(pane) ==
  /\ Idle /\ editingId = NoId
  /\ visiblePanes' = [visiblePanes EXCEPT ![pane] = ~visiblePanes[pane]]
  /\ IF pane = "tree" /\ visiblePanes.tree
     THEN /\ expanded' = [k \in {RootKey} |-> TRUE]
          /\ editingId' = NoId
          /\ editValue' = <<>>
     ELSE UNCHANGED <<expanded, editingId, editValue>>
  /\ IF pane = "text" /\ visiblePanes.text
     THEN /\ timers' = {}
          /\ markers' = <<>>
          /\ validatorError' = NullError
          /\ valDeps' = NoDeps
          /\ langDeps' = NoLangDeps
     ELSE UNCHANGED <<timers, markers, validatorError, valDeps, langDeps>>
  /\ lastOp' = "togglePane"
  /\ lastEdit' = NoEdit
  /\ UNCHANGED <<data, text, parseError, effectPending, call, schemaText,
                 monaco, diagnostics>>
  /\ Clock

Next ==
  \/ TextParseEffect
  \/ \E t \in DocTexts : handleTextChange(t)
  \/ handleFormat
  \/ \E i \in 1..Len(visibleNodes) : ToggleClick(i)
  \/ \E i \in 1..Len(visibleNodes) : EditStart(i)
  \/ \E s \in EditInputs : EditType(s)
  \/ \E i \in 1..Len(visibleNodes) : commitChange(i)
  \/ EditEscape

Spec == Init /\ [][Next]_vars

(***************************************************************************)
(* TextView.  An effect runs after a render in which its dependencies have *)
(* changed: first the cleanup of its last run, then its body.  The effects *)
(* of a render run in the order of their declaration, those of TextView    *)
(* before the one of App, before a timer fires and before the user acts    *)
(* again.                                                                  *)
(* The editor keeps the model while TextView is mounted, so the callbacks  *)
(* find it and it is not disposed.                                         *)
(***************************************************************************)
ValDepsNow == [run |-> TRUE, value |-> text, schemaText |-> schemaText,
               monaco |-> monaco]
LangDepsNow == [run |-> TRUE, schemaText |-> schemaText, monaco |-> monaco]

\* the effects of TextView have run for the state rendered
ViewIdle == visiblePanes.text => (valDeps = ValDepsNow /\ langDeps = LangDepsNow)

\* a timeout of an effect, with the values its callback closes over
Timer(effect, value, schema) ==
  [effect |-> effect, left |-> Delay, value |-> value, schemaText |-> schema]

\* clearTimeout(timer) of the cleanup: the timer the last run has set
Cleared(effect, deps) ==
  {t \in timers : /\ t.effect = effect
                  /\ t.schemaText = deps.schemaText
                  /\ effect = "validation" => t.value = deps.value}

\* useMonaco: the library is loaded, and TextView renders with it
MonacoLoaded ==
  /\ visiblePanes.text /\ ~monaco
  /\ monaco' = TRUE
  /\ lastOp' = "monaco"
  /\ UNCHANGED <<data, text, parseError, effectPending, expanded, editingId,
                 editValue, lastEdit, call, schemaText, visiblePanes, timers,
                 markers, diagnostics, validatorError, valDeps, langDeps>>
  /\ Clock

\* a validation effect that has no cleanup
ValidationEffect_noCleanup ==
  /\ visiblePanes.text /\ langDeps = LangDepsNow /\ valDeps # ValDepsNow
  /\ timers' = timers
                 \cup (IF monaco THEN {Timer("validation", text, schemaText)}
                       ELSE {})
  /\ valDeps' = ValDepsNow
  /\ lastOp' = "validationEffect"
  /\ UNCHANGED <<data, text, parseError, effectPending, expanded, editingId,
                 editValue, lastEdit, call, schemaText, visiblePanes, monaco,
                 markers, diagnostics, validatorError, langDeps>>
  /\ Clock

\* the effect that validates (lines 70-122): the cleanup of its last run, and
\* a new timer
ValidationEffect ==
  /\ visiblePanes.text /\ langDeps = LangDepsNow /\ valDeps # ValDepsNow
  /\ timers' = (timers \ Cleared("validation", valDeps))
                 \cup (IF monaco THEN {Timer("validation", text, schemaText)}
                       ELSE {})
  /\ valDeps' = ValDepsNow
  /\ lastOp' = "validationEffect"
  /\ UNCHANGED <<data, text, parseError, effectPending, expanded, editingId,
                 editValue, lastEdit, call, schemaText, visiblePanes, monaco,
                 markers, diagnostics, validatorError, langDeps>>
  /\ Clock

\* the effect that configures the language service (lines 51-66)
LanguageEffect ==
  /\ visiblePanes.text /\ langDeps # LangDepsNow
  /\ timers' = (timers \ Cleared("language", langDeps))
                 \cup (IF monaco THEN {Timer("language", <<>>, schemaText)}
                       ELSE {})
  /\ langDeps' = LangDepsNow
  /\ lastOp' = "languageEffect"
  /\ UNCHANGED <<data, text, parseError, effectPending, expanded, editingId,
                 editValue, lastEdit, call, schemaText, visiblePanes, monaco,
                 markers, diagnostics, validatorError, valDeps>>
  /\ Clock

\* a timer that is due fires
TimerFires(t) ==
  /\ Idle /\ ViewIdle
  /\ t \in timers /\ t.left = 0
  /\ timers' = timers \ {t}
  /\ IF t.effect = "validation"
     THEN /\ \E c \in {ValidationCycle(t.value, t.schemaText, markers,
                                       validatorError)} :
               /\ markers' = c.markers
               /\ validatorError' = c.error
               /\ lastOp' = IF c.fault THEN "validationFault" ELSE "validated"
          /\ UNCHANGED diagnostics
     ELSE /\ \E r \in {JSONparse(t.schemaText)} :
               diagnostics' = [set |-> TRUE,
                               schemas |-> IF r.ok THEN <<r.v>> ELSE <<>>]
          /\ lastOp' = "language"
          /\ UNCHANGED <<markers, validatorError>>
  /\ UNCHANGED <<data, text, parseError, effectPending, expanded, editingId,
                 editValue, lastEdit, call, schemaText, visiblePanes, monaco,
                 valDeps, langDeps>>
  /\ Clock

\* a tick of the clock: no effect is waiting to run and no timer is due
Tick ==
  /\ Idle /\ ViewIdle
  /\ \A t \in timers : t.left > 0
  /\ timers # {} \/ sinceTextChange < Delay
  /\ timers' = {[t EXCEPT !.left = t.left - 1] : t \in timers}
  /\ sinceTextChange' = IF sinceTextChange < Delay THEN sinceTextChange + 1
                        ELSE Delay
  /\ lastOp' = "tick"
  /\ UNCHANGED <<data, text, parseError, effectPending, expanded, editingId,
                 editValue, lastEdit, call, schemaText, visiblePanes, monaco,
                 markers, diagnostics, validatorError, valDeps, langDeps>>

(***************************************************************************)
(* App with TextView and the schema editor: the texts the user leaves in   *)
(* the two editors, the timers and the clock.                              *)
(***************************************************************************)
\* {"age":16}
DocMinor == <<"{", DQ, "a", "g", "e", DQ, ":", "1", "6", "}">>
\* {"expression":"1 +"}
DocBadExpression ==
  <<"{", DQ, "e", "x", "p", "r", "e", "s", "s", "i", "o", "n", DQ, ":", DQ,
    "1", SP, "+", DQ, "}">>
\* {"type":"strin"}
SchemaBadType ==
  <<"{", DQ, "t", "y", "p", "e", DQ, ":", DQ, "s", "t", "r", "i", "n", DQ, "}">>
\* {"type":   (a text cut short)
SchemaCut == <<"{", DQ, "t", "y", "p", "e", DQ, ":">>

ViewTexts == {DocMinor, DocBadExpression, DocCut}
ViewSchemas == {initialSchema, SchemaBadType, SchemaCut}

NextView ==
  \/ MonacoLoaded
  \/ LanguageEffect
  \/ ValidationEffect
  \/ ViewIdle /\ TextParseEffect
  \/ \E t \in timers : TimerFires(t)
  \/ Tick
  \/ ViewIdle /\ monaco /\ visiblePanes.text
       /\ \E t \in ViewTexts : handleTextChange(t)
  \/ ViewIdle /\ monaco /\ \E t \in ViewSchemas : handleSchemaChange(t)
  \/ ViewIdle /\ monaco /\ togglePane("text")

SpecView == Init /\ [][NextView]_vars

(***************************************************************************)
(* App with TreeView, the schema editor and the button of the tree pane:   *)
(* the operations that run while an expansion map is kept.                 *)
(***************************************************************************)
TreeTexts == {DocNested, DocCut}
TreeSchemas == {<<"{", "}">>}
TreeInputs == {<<"7">>}

NextTree ==
  \/ TextParseEffect
  \/ \E t \in TreeTexts : handleTextChange(t)
  \/ \E s \in TreeSchemas : handleSchemaChange(s)
  \/ handleFormat
  \/ \E i \in 1..Len(visibleNodes) : ToggleClick(i)
  \/ \E i \in 1..Len(visibleNodes) : EditStart(i)
  \/ \E s \in TreeInputs : EditType(s)
  \/ \E i \in 1..Len(visibleNodes) : commitChange(i)
  \/ EditEscape
  \/ togglePane("tree")

SpecTree == Init /\ [][NextTree]_vars

(***************************************************************************)
(* TreeView over documents whose keys contain the '.' that join('.') puts  *)
(* between the segments of a path: the text editor, the togglers and the   *)
(* click that puts a leaf in edit mode.                                    *)
(***************************************************************************)
\* {"a.b":1,"a":{"b":2}}
DocDottedLeaves ==
  <<"{", DQ, "a", ".", "b", DQ, ":", "1", ",",
    DQ, "a", DQ, ":", "{", DQ, "b", DQ, ":", "2", "}", "}">>
\* {"a.b":[1],"a":{"b":[2]}}
DocDottedArrays ==
  <<"{", DQ, "a", ".", "b", DQ, ":", "[", "1", "]", ",",
    DQ, "a", DQ, ":", "{", DQ, "b", DQ, ":", "[", "2", "]", "}", "}">>

IdTexts == {DocDottedLeaves, DocDottedArrays, DocNested}

NextIds ==
  \/ TextParseEffect
  \/ \E t \in IdTexts : handleTextChange(t)
  \/ \E i \in 1..Len(visibleNodes) : ToggleClick(i)
  \/ \E i \in 1..Len(visibleNodes) : EditStart(i)
  \/ EditEscape

SpecIds == Init /\ [][NextIds]_vars

(***************************************************************************)
(* parseInputValue on its own: every string of at most MaxLen characters   *)
(* of LeafAlphabet, and the words of LeafWords.                            *)
(***************************************************************************)
SeqsUpTo(S, n) == UNION {[1..k -> S] : k \in 0..n}

LeafAlphabet == {SP, DQ, "0", "1", "7", "+", "-", ".", "e", "x"}

LeafWords ==
  {<<"n", "u", "l", "l">>, <<"t", "r", "u", "e">>, <<"f", "a", "l", "s", "e">>,
   <<"I", "n", "f", "i", "n", "i", "t", "y">>,
   <<"-", "I", "n", "f", "i", "n", "i", "t", "y">>,
   <<SP, "I", "n", "f", "i", "n", "i", "t", "y", SP>>,
   <<"N", "a", "N">>, <<"0", "o", "1", "7">>, <<"0", "x", "1", "F">>,
   <<"1", "e", "2", "1">>, <<"1", "e", "+", "2", "1">>,
   <<"1", "e", "9", "9", "9">>, <<"-", "7", ".", "2", "5">>,
   <<DQ, "a", SP, "b", DQ>>}

LeafStrings == SeqsUpTo(LeafAlphabet, MaxLen) \cup LeafWords

\* the state of the components while a function is checked on its own
Parked ==
  /\ data = VNull
  /\ text = NullWord
  /\ parseError = NoError
  /\ effectPending = FALSE
  /\ expanded = [k \in {RootKey} |-> TRUE]
  /\ editingId = NoId
  /\ editValue = <<>>
  /\ lastOp = "init"
  /\ lastEdit = NoEdit
  /\ schemaText = <<"{", "}">>
  /\ visiblePanes = [tree |-> TRUE, text |-> TRUE, schema |-> TRUE]
  /\ InitView

InitLeaf ==
  /\ Parked
  /\ \E s \in LeafStrings :
       call = [fn |-> "parseInputValue", input |-> s, applied |-> FALSE,
               success |-> FALSE, value |-> VNull]

CallParseInputValue ==
  /\ call.fn = "parseInputValue" /\ ~call.applied
  /\ \E r \in {parseInputValue(call.input)} :
       call' = [call EXCEPT !.applied = TRUE, !.success = r.success,
                            !.value = r.value]
  /\ UNCHANGED <<data, text, parseError, effectPending, expanded, editingId,
                 editValue, lastOp, lastEdit>>
  /\ UNCHANGED <<schemaText, visiblePanes, viewVars>>
  /\ Clock

SpecLeaf == InitLeaf /\ [][CallParseInputValue]_vars

(***************************************************************************)
(* updateDataFromTree on its own: every path of at most MaxPathLen         *)
(* segments of EditSegments into the values of EditDocs.                   *)
(***************************************************************************)
\* {"a":1,"b":[2,3],"c":{"d":{"e":"x"}}}
DocShared ==
  <<"{", DQ, "a", DQ, ":", "1", ",", DQ, "b", DQ, ":", "[", "2", ",", "3",
    "]", ",", DQ, "c", DQ, ":", "{", DQ, "d", DQ, ":", "{", DQ, "e", DQ, ":",
    DQ, "x", DQ, "}", "}", "}">>
\* [1,{"a":2}]
DocList == <<"[", "1", ",", "{", DQ, "a", DQ, ":", "2", "}", "]">>

EditDocs == {DocShared, DocList, DocScalar, NullWord}

EditSegments == {<<"a">>, <<"b">>, <<"c">>, <<"d">>, <<"0">>, <<"1">>}

EditValues == {VNum(1), VNum(7), VStr(<<"x">>), VNull, VSpecial("inf")}

InitEdit ==
  /\ Parked
  /\ \E d \in EditDocs, p \in SeqsUpTo(EditSegments, MaxPathLen),
        x \in EditValues, dev \in BOOLEAN :
       call = [fn |-> "updateDataFromTree",
               base |-> AllocRefs(JSONparse(d).v, {}), path |-> p,
               value |-> x, dev |-> dev, applied |-> FALSE, fault |-> FALSE,
               data |-> VNull, text |-> <<>>]

CallUpdateDataFromTree ==
  /\ call.fn = "updateDataFromTree" /\ ~call.applied
  /\ \E u \in {updateDataFromTree(call.base, call.path, call.value,
                                   Refs(call.base), call.dev)} :
       call' = [call EXCEPT !.applied = TRUE, !.fault = u.fault,
                            !.data = u.data, !.text = u.text]
  /\ UNCHANGED <<data, text, parseError, effectPending, expanded, editingId,
                 editValue, lastOp, lastEdit>>
  /\ UNCHANGED <<schemaText, visiblePanes, viewVars>>
  /\ Clock

SpecEdit == InitEdit /\ [][CallUpdateDataFromTree]_vars

(***************************************************************************)
(* The callback of the validation timer on its own: documents with two     *)
(* expressions and a third member, under two schemas.                      *)
(***************************************************************************)
ExpressionStrings ==
  {<<"1", SP, "+", SP, "2">>, <<"1", SP, "+">>, <<"1", SP, "2">>}

MemberValues ==
  {VNum(30), VNum(16), VArr(0, <<Entry(<<"0">>, VNum(16))>>),
   VObj(0, <<Entry(<<"/">>, VNum(16))>>)}

\* the text of the document {"e": x, "f": y, "a": z}
MarkerDoc(x, y, z) ==
  JSONstringify(VObj(0, <<Entry(<<"e">>, VStr(x)), Entry(<<"f">>, VStr(y)),
                          Entry(<<"a">>, z)>>))

\* {"properties":{"e":{"format":"expression"},"f":{"format":"expression"},
\*  "a":{"minimum":18,"items":{"minimum":18},
\*       "properties":{"/":{"minimum":18}}}}}
SchemaExpressions ==
  <<"{", DQ, "p", "r", "o", "p", "e", "r", "t", "i", "e", "s", DQ, ":", "{",
    DQ, "e", DQ, ":", "{", DQ, "f", "o", "r", "m", "a", "t", DQ, ":",
    DQ, "e", "x", "p", "r", "e", "s", "s", "i", "o", "n", DQ, "}", ",",
    DQ, "f", DQ, ":", "{", DQ, "f", "o", "r", "m", "a", "t", DQ, ":",
    DQ, "e", "x", "p", "r", "e", "s", "s", "i", "o", "n", DQ, "}", ",",
    DQ, "a", DQ, ":", "{",
    DQ, "m", "i", "n", "i", "m", "u", "m", DQ, ":", "1", "8", ",",
    DQ, "i", "t", "e", "m", "s", DQ, ":", "{",
    DQ, "m", "i", "n", "i", "m", "u", "m", DQ, ":", "1", "8", "}", ",",
    DQ, "p", "r", "o", "p", "e", "r", "t", "i", "e", "s", DQ, ":", "{",
    DQ, "/", DQ, ":", "{",
    DQ, "m", "i", "n", "i", "m", "u", "m", DQ, ":", "1", "8", "}", "}",
    "}", "}", "}">>

\* {"required":["g"],"properties":{"e":{"type":"number"},
\*  "f":{"format":"expression"}}}
SchemaRequired ==
  <<"{", DQ, "r", "e", "q", "u", "i", "r", "e", "d", DQ, ":", "[",
    DQ, "g", DQ, "]", ",",
    DQ, "p", "r", "o", "p", "e", "r", "t", "i", "e", "s", DQ, ":", "{",
    DQ, "e", DQ, ":", "{", DQ, "t", "y", "p", "e", DQ, ":",
    DQ, "n", "u", "m", "b", "e", "r", DQ, "}", ",",
    DQ, "f", DQ, ":", "{", DQ, "f", "o", "r", "m", "a", "t", DQ, ":",
    DQ, "e", "x", "p", "r", "e", "s", "s", "i", "o", "n", DQ, "}",
    "}", "}">>

MarkerSchemas == {SchemaExpressions, SchemaRequired}

\* validator.error before the callback: null, or the error of a check of an
\* earlier callback
EarlierErrors == {NullError, Unexpected(0).message}

InitMarkers ==
  /\ Parked
  /\ \E x \in ExpressionStrings, y \in ExpressionStrings, z \in MemberValues,
        s \in MarkerSchemas, e \in EarlierErrors :
       call = [fn |-> "ValidationCycle", value |-> MarkerDoc(x, y, z),
               schema |-> s, error |-> e, applied |-> FALSE, fault |-> FALSE,
               markers |-> <<>>, after |-> NullError]

CallValidationCycle ==
  /\ call.fn = "ValidationCycle" /\ ~call.applied
  /\ \E c \in {ValidationCycle(call.value, call.schema, <<>>, call.error)} :
       call' = [call EXCEPT !.applied = TRUE, !.fault = c.fault,
                            !.markers = c.markers, !.after = c.error]
  /\ UNCHANGED <<data, text, parseError, effectPending, expanded, editingId,
                 editValue, lastOp, lastEdit>>
  /\ UNCHANGED <<schemaText, visiblePanes, viewVars>>
  /\ Clock

SpecMarkers == InitMarkers /\ [][CallValidationCycle]_vars

(***************************************************************************)
(* Properties.                                                             *)
(***************************************************************************)
\* the value at path of v (undefined where the path does not resolve)
RECURSIVE At(_, _)
At(v, path) ==
  IF path = <<>> THEN v
  ELSE IF IsComposite(v) /\ HasKey(v.kids, Head(path))
    THEN At(GetProp(v.kids, Head(path)), Tail(path))
  ELSE VUndefined

\* v with the member at path replaced by x, every other member as it is
RECURSIVE ReplaceAt(_, _, _)
ReplaceAt(v, path, x) ==
  IF path = <<>> THEN x
  ELSE [v EXCEPT !.kids =
          [j \in DOMAIN v.kids |->
             IF v.kids[j].k = Head(path)
             THEN Entry(v.kids[j].k, ReplaceAt(v.kids[j].v, Tail(path), x))
             ELSE v.kids[j]]]

Prefix(p, k) == SubSeq(p, 1, k)

IsPrefix(q, p) == Len(q) <= Len(p) /\ Prefix(p, Len(q)) = q

\* the paths of v that lead to a member, the empty path to v included
RECURSIVE PathsOf(_)
PathsOf(v) ==
  {<<>>} \cup
  (IF IsComposite(v)
   THEN UNION {{<<v.kids[j].k>> \o q : q \in PathsOf(v.kids[j].v)} :
                 j \in {i \in DOMAIN v.kids : v.kids[i].v.t # "undefined"}}
   ELSE {})

\* the steps of commitChange
CommitOps == {"commit", "commitSame", "commitRejected", "fault"}

\* the node whose value is being edited
EditingNode == CHOOSE n \in {visibleNodes[j] : j \in DOMAIN visibleNodes} :
                 n.id = editingId

\* C1: a text that fails to parse leaves data as it was, before and after the
\* text change, and sets a parse error; data changes only to the parse of a
\* text that parsed, or to the result of a tree edit.
C1_Step ==
  /\ (effectPending /\ ~effectPending' /\ ~JSONparse(text).ok)
       => (data' = data /\ parseError' # NoError)
  /\ (text' # text /\ lastOp' = "textChange") => data' = data
  /\ (~effectPending' /\ ~JSONparse(text').ok) => parseError' # NoError
  /\ data' # data =>
       \/ /\ effectPending /\ ~effectPending' /\ JSONparse(text).ok
          /\ Strip(data') = Strip(JSONparse(text).v)
       \/ /\ editingId # NoId /\ lastEdit'.active
          /\ Strip(data') =
               ReplaceAt(Strip(data), lastEdit'.path, lastEdit'.value)

\* C1: every step is as C1_Step says: a text that fails to parse leaves data
\* untouched and sets the parse error, and data changes only to the parse of
\* a text that parsed or to the result of a tree edit.
C1_ParseFailureKeepsData == [][C1_Step]_vars

C1_Witness ==
  /\ lastOp = "parseFailed"
  /\ ~JSONparse(text).ok
  /\ parseError # NoError
  /\ IsComposite(data)

\* C2, as the spec states it: every committed tree edit replaces the leaf at
\* its path and serialises the new value, in the same step.
C2_Step ==
  (lastOp' = "commit" /\ editingId # NoId) =>
    /\ At(data', lastEdit'.path) = lastEdit'.value
    /\ Strip(data') = ReplaceAt(Strip(data), lastEdit'.path, lastEdit'.value)
    /\ text' = JSONstringify(data')

\* C2, as the spec states it: in every step that commits a tree edit, data
\* becomes the old value with the leaf at the path replaced and text its
\* serialisation.
C2_EveryEditReplacesLeaf == [][C2_Step]_vars

\* C2, amended: a committed (accepted, changed) edit of a leaf with a
\* non-empty path replaces that leaf and serialises the new value in the same
\* step; the edit of the root leaf of a document that is a single scalar
\* leaves data as it is and sets text to the serialisation of that data.
C2_AmendedStep ==
  (Idle /\ editingId # NoId /\ lastOp' \in CommitOps
     /\ parseInputValue(editValue).success
     /\ JSONstringify(EditingNode.value)
          # JSONstringify(parseInputValue(editValue).value)) =>
    /\ lastOp' = "commit"
    /\ lastEdit'.path = Tail(EditingNode.path)
    /\ lastEdit'.value = parseInputValue(editValue).value
    /\ text' = JSONstringify(data')
    /\ IF lastEdit'.path # <<>>
       THEN /\ At(data', lastEdit'.path) = lastEdit'.value
            /\ Strip(data') =
                 ReplaceAt(Strip(data), lastEdit'.path, lastEdit'.value)
       ELSE data' = data

\* C2, amended: every step that commits an accepted, changed edit sets data
\* and text together; with a non-empty path the leaf is replaced, with the
\* empty path (a scalar document) data stays and text is its serialisation.
C2_AtomicTreeEdit == [][C2_AmendedStep]_vars

C2_Witness ==
  /\ lastOp = "commit"
  /\ Len(lastEdit.path) >= 2
  /\ At(data, lastEdit.path) = lastEdit.value
  /\ At(lastEdit.base, lastEdit.path) # lastEdit.value
  /\ text = JSONstringify(data)

\* updateDataFromTree has been applied to the arguments of call
EditApplied == call.fn = "updateDataFromTree" /\ call.applied

\* every proper prefix of p leads to an object or array of v
PrefixesResolve(v, p) ==
  \A k \in 0..(Len(p) - 1) : IsComposite(At(v, Prefix(p, k)))

\* p is not empty and leads to a member of v
ValidPath(v, p) ==
  /\ p # <<>>
  /\ PrefixesResolve(v, p)
  /\ HasKey(At(v, Prefix(p, Len(p) - 1)).kids, p[Len(p)])
  /\ At(v, p).t # "undefined"

\* every object and array of w from the root to the container of p is a new one
AncestorsNew(v, w, p) ==
  \A k \in 0..(Len(p) - 1) : At(w, Prefix(p, k)).ref \notin Refs(v)

\* every container on the way to p has in w the members it has in v, in the
\* same order, and each member off the path is the very value it is in v
OffPathShared(v, w, p) ==
  \A k \in 0..(Len(p) - 1) :
    /\ Len(At(w, Prefix(p, k)).kids) = Len(At(v, Prefix(p, k)).kids)
    /\ \A j \in DOMAIN At(v, Prefix(p, k)).kids :
         /\ At(w, Prefix(p, k)).kids[j].k = At(v, Prefix(p, k)).kids[j].k
         /\ At(v, Prefix(p, k)).kids[j].k # p[k + 1]
              => At(w, Prefix(p, k)).kids[j].v = At(v, Prefix(p, k)).kids[j].v

\* C3, as the spec states it: for a valid non-empty path the result has x at
\* p, every ancestor of p is a new container and everything off the path is
\* the same reference.
C3_AncestorsAlwaysNew ==
  (EditApplied /\ ValidPath(call.base, call.path)) =>
    /\ ~call.fault
    /\ At(call.data, call.path) = call.value
    /\ AncestorsNew(call.base, call.data, call.path)
    /\ OffPathShared(call.base, call.data, call.path)

\* C3, amended: for a valid non-empty path the result has x at p and shares
\* everything off the path by reference; every ancestor of p is a new
\* container when x is not the value already at p, and the result is the
\* original root itself when it is.
C3_StructuralSharing ==
  (EditApplied /\ ValidPath(call.base, call.path)) =>
    /\ ~call.fault
    /\ At(call.data, call.path) = call.value
    /\ OffPathShared(call.base, call.data, call.path)
    /\ IF At(call.base, call.path) = call.value
       THEN call.data = call.base
       ELSE AncestorsNew(call.base, call.data, call.path)

C3_Witness ==
  /\ EditApplied /\ ~call.fault
  /\ call.path = <<<<"b">>, <<"1">>>>
  /\ At(call.base, call.path) # call.value
  /\ At(call.data, call.path) = call.value
  /\ At(call.data, <<<<"c">>>>) = At(call.base, <<<<"c">>>>)
  /\ At(call.data, <<<<"c">>>>).ref # 0
  /\ call.data.ref # call.base.ref

\* C4: after a tree edit and the parse of the text it wrote, every object and
\* array of data that is off the edited path is the one it was before the edit.
C4_IdentitySurvivesReparse ==
  (lastOp = "parsed" /\ lastEdit.active) =>
    \A q \in PathsOf(lastEdit.base) :
      (IsComposite(At(lastEdit.base, q)) /\ ~IsPrefix(q, lastEdit.path))
        => At(data, q).ref = At(lastEdit.base, q).ref

\* C5: updateDataFromTree with the empty path, or with a path that has a
\* proper prefix leading to no object or array, changes nothing and does not
\* throw.
C5_BadPathIsNoOp ==
  (EditApplied
     /\ (call.path = <<>> \/ ~PrefixesResolve(call.base, call.path))) =>
    /\ ~call.fault
    /\ call.data = call.base

\* C6: the text written by a tree edit parses to a value deeply equal to the
\* value the edit produced.
C6_RoundTripAfterEdit ==
  lastOp = "commit" =>
    /\ JSONparse(text).ok
    /\ DeepEqual(JSONparse(text).v, data)

\* C7: committing an input that parseInputValue rejects leaves data and text
\* as they are, ends the editing and does not throw.
C7_Step ==
  (Idle /\ editingId # NoId /\ lastOp' \in CommitOps
     /\ ~parseInputValue(editValue).success) =>
    /\ data' = data
    /\ text' = text
    /\ effectPending' = effectPending
    /\ editingId' = NoId
    /\ lastOp' # "fault"

\* C7: every step that commits a rejected input leaves data and text as they
\* are, ends the editing and does not throw.
C7_RejectedEditKeepsState == [][C7_Step]_vars

C7_Witness ==
  /\ lastOp = "commitRejected"
  /\ editingId = NoId
  /\ text = JSONstringify(data)

\* parseInputValue has been applied to the input of call
LeafApplied == call.fn = "parseInputValue" /\ call.applied

\* a digit follows a leading zero, after the sign if there is one
HasLeadingZero(t) ==
  \E i \in {1, 2} :
    /\ i = 1 \/ t[1] \in {"-", "+"}
    /\ Len(t) > i /\ t[i] = "0" /\ t[i + 1] \in Digits

\* 0x.., 0o..
HasRadixPrefix(t) ==
  Len(t) >= 2 /\ t[1] = "0" /\ t[2] \in {"x", "X", "o", "O"}

\* -? digits [. digits] [e [+-] digits], the whole of t
IsDecimalToken(t) ==
  /\ t # <<>>
  /\ t # <<"-">>
  /\ With(DecimalAt(t, IF t[1] = "-" THEN 2 ELSE 1, TRUE), LAMBDA d :
       d.ok /\ d.j = Len(t) + 1)

\* C8: parseInputValue gives a number only for a token that is a finite
\* decimal number and is its own serialisation; it rejects leading zeros, a
\* plus sign, hex and octal notation, Infinity, -Infinity and NaN.
C8_NumberOnlyIfFiniteDecimal ==
  LeafApplied =>
    /\ (call.success /\ call.value.t = "number") =>
         /\ call.value.sp = "fin"
         /\ IsDecimalToken(Trim(call.input))
         /\ NumberToString(call.value) = Trim(call.input)
    /\ Trim(call.input) \in {<<"I", "n", "f", "i", "n", "i", "t", "y">>,
                             <<"-", "I", "n", "f", "i", "n", "i", "t", "y">>,
                             <<"N", "a", "N">>}
         => ~call.success
    /\ (Trim(call.input) # <<>>
        /\ (\/ HasLeadingZero(Trim(call.input))
            \/ Trim(call.input)[1] = "+"
            \/ HasRadixPrefix(Trim(call.input))))
         => ~call.success

\* the nodes visibleNodes keeps
Kept == {visibleNodes[j] : j \in DOMAIN visibleNodes}

\* every ancestor of the node below the synthetic root is expanded
AncestorsExpanded(n) ==
  \A k \in 2..(Len(n.path) - 1) :
    Lookup(expanded, Join(Prefix(n.path, k), <<".">>), FALSE)

\* C9: visibleNodes keeps every node of depth 0 or 1, and keeps a node of
\* depth 2 or more exactly when every one of its ancestors is expanded.
C9_VisibleIffAllAncestorsExpanded ==
  With(flattenedNodes, LAMBDA nodes :
  With(Kept, LAMBDA kept :
    \A i \in DOMAIN nodes :
      IF nodes[i].depth <= 1 THEN nodes[i] \in kept
      ELSE nodes[i] \in kept <=> AncestorsExpanded(nodes[i])))

\* the paths of v and of its members, in pre-order
RECURSIVE Preorder(_, _)
RECURSIVE PreorderKids(_, _, _)
Preorder(v, path) ==
  <<path>> \o (IF IsComposite(v) THEN PreorderKids(v.kids, 1, path) ELSE <<>>)
PreorderKids(kids, i, path) ==
  IF i > Len(kids) THEN <<>>
  ELSE (IF kids[i].v.t = "undefined" THEN <<>>
        ELSE Preorder(kids[i].v, Append(path, kids[i].k)))
       \o PreorderKids(kids, i + 1, path)

\* the number of members of v, at every depth
RECURSIVE MemberCount(_)
RECURSIVE MemberCountOfKids(_, _)
MemberCount(v) == IF IsComposite(v) THEN MemberCountOfKids(v.kids, 1) ELSE 0
MemberCountOfKids(kids, i) ==
  IF i > Len(kids) THEN 0
  ELSE (IF kids[i].v.t = "undefined" THEN 0 ELSE 1 + MemberCount(kids[i].v))
       + MemberCountOfKids(kids, i + 1)

\* { root: data }
Wrapped == VObj(0, <<Entry(RootKey, data)>>)

\* C10: flattenedNodes is the pre-order traversal of { root: data }: one node
\* for the synthetic root (which stands for data itself) and one for every
\* member of data, each with depth = path length - 1, and the descendants
\* of a node directly after it, in key / index order.
C10_FlattenIsPreorder ==
  With(flattenedNodes, LAMBDA nodes :
    /\ Len(nodes) = MemberCount(data) + 1
    /\ [i \in DOMAIN nodes |-> nodes[i].path] = Tail(Preorder(Wrapped, <<>>))
    /\ \A i \in DOMAIN nodes :
         /\ nodes[i].depth = Len(nodes[i].path) - 1
         /\ nodes[i].value = At(Wrapped, nodes[i].path)
         /\ \A j \in DOMAIN nodes :
              (j # i /\ IsPrefix(nodes[i].path, nodes[j].path))
                <=> (i < j /\ j <= i + MemberCount(nodes[i].value)))

C10_Witness ==
  /\ lastOp = "parsed"
  /\ Len(flattenedNodes) = 5
  /\ flattenedNodes[3].type = "array" /\ flattenedNodes[3].depth = 2
  /\ flattenedNodes[4].path = <<RootKey, <<"b">>, <<"0">>, <<"0">>>>
  /\ flattenedNodes[5].path = <<RootKey, <<"b">>, <<"1">>>>

\* the nodes of the list that are the children of node n
ChildrenOf(nodes, n) ==
  {j \in DOMAIN nodes :
     /\ Len(nodes[j].path) = Len(n.path) + 1
     /\ Prefix(nodes[j].path, Len(n.path)) = n.path}

\* the expansion state of the two-tier rule: the stored entry, else depth <= 1
TwoTier(map, n) == IF n.id \in DOMAIN map THEN map[n.id] ELSE n.depth <= 1

\* C11: for every composite node shown, the toggler shows the stored entry of
\* the node, or depth <= 1 when there is none, and the children of the node
\* are visible exactly when that state is "expanded".
C11_TwoTierLookup ==
  With(flattenedNodes, LAMBDA nodes :
  With(Kept, LAMBDA kept :
    \A i \in DOMAIN nodes :
      (nodes[i].hasChildren /\ nodes[i] \in kept) =>
        /\ isExpanded(expanded, nodes[i]) = TwoTier(expanded, nodes[i])
        /\ \A j \in ChildrenOf(nodes, nodes[i]) :
             nodes[j] \in kept <=> TwoTier(expanded, nodes[i])))

\* the ids of a list of nodes
Ids(nodes) == {nodes[i].id : i \in DOMAIN nodes}

\* the step changes, of the stored entries, only the entry of id, which it
\* flips
FlipsOnly(id) ==
  /\ DOMAIN expanded' = DOMAIN expanded \cup {id}
  /\ expanded'[id] = ~Lookup(expanded, id, FALSE)
  /\ \A k \in DOMAIN expanded \ {id} : expanded'[k] = expanded[k]

\* a toggle changes only the entry of the node clicked, and clicking the same
\* toggler once more shows the nodes shown before
C12_ToggleStep ==
  lastOp' = "toggle" =>
    With(flattenedNodes, LAMBDA nodes :
    With(visibleNodesOf(nodes, expanded), LAMBDA shown :
      \E i \in DOMAIN shown :
        /\ FlipsOnly(shown[i].id)
        /\ Ids(visibleNodesOf(nodes, toggleNode(expanded', shown[i].id)))
             = Ids(shown)))

\* a tree edit keeps the map, and the nodes that opening a closed composite
\* would show
C12_EditStep ==
  lastOp' = "commit" =>
    /\ expanded' = expanded
    /\ With(flattenedNodes, LAMBDA nodes :
       With(flattenedNodes', LAMBDA after :
         \A k \in DOMAIN expanded :
           Ids(visibleNodesOf(after, toggleNode(expanded', k)))
             = Ids(visibleNodesOf(nodes, toggleNode(expanded, k)))))

\* C12 as stated: the expansion map is changed by toggle(id) only, which
\* changes the entry of id only; text changes, tree edits and schema changes
\* keep every entry, so closing a node, editing a sibling leaf and opening the
\* node again shows the descendants shown before.
C12_OnlyToggleChangesMap ==
  [][/\ expanded' # expanded => lastOp' = "toggle"
     /\ C12_ToggleStep
     /\ C12_EditStep]_vars

\* C12, amended: as above while TreeView stays mounted; hiding the tree pane
\* discards the map, and the pane comes back with the initial map.
C12_MapOfOneSession ==
  [][/\ expanded' # expanded =>
          \/ lastOp' = "toggle"
          \/ /\ lastOp' = "togglePane" /\ ~visiblePanes'.tree
             /\ expanded' = [k \in {RootKey} |-> TRUE]
     /\ C12_ToggleStep
     /\ C12_EditStep]_vars

\* a composite is open again, below it the leaf root.b.1 has been edited to
\* 7, the schema text has changed, and other entries are stored
C12_Witness ==
  /\ lastOp = "toggle"
  /\ schemaText = <<"{", "}">>
  /\ Cardinality(DOMAIN expanded) >= 3
  /\ \E k \in DOMAIN expanded : k # RootKey /\ expanded[k]
  /\ \E i \in DOMAIN flattenedNodes :
       /\ flattenedNodes[i].path = <<RootKey, <<"b">>, <<"1">>>>
       /\ flattenedNodes[i].value = VNum(7)

\* the step is the callback of the validation timer
CycleRuns == lastOp' \in {"validated", "validationFault"}

\* C13: a validation cycle that runs while the document text or the schema
\* text is not valid JSON ends with no marker and without a fault, and keeps
\* the value the tree shows.
C13_SyntaxErrorClearsMarkers ==
  [][(CycleRuns /\ (~JSONparse(schemaText).ok \/ ~JSONparse(text).ok)) =>
       /\ markers' = <<>>
       /\ lastOp' = "validated"
       /\ data' = data]_vars

\* a cycle has run on a schema text that is not valid JSON, the document
\* text being valid
C13_Witness ==
  /\ lastOp = "validated"
  /\ ~JSONparse(schemaText).ok
  /\ JSONparse(text).ok
  /\ markers = <<>>

\* C14: a validation cycle whose schema text is valid JSON but whose schema
\* does not compile ends without a fault and with no marker.
C14_CompileFaultRecovered ==
  [][(/\ CycleRuns
      /\ JSONparse(schemaText).ok
      /\ CompileFaults(JSONparse(schemaText).v)) =>
       /\ lastOp' = "validated"
       /\ markers' = <<>>]_vars

\* C15: a validation cycle that completes leaves exactly the markers of the
\* document text and the schema text of that moment, whatever was shown
\* before.
C15_MarkersReplacedWhole ==
  [][lastOp' = "validated" =>
       markers' = ValidationCycle(text, schemaText, <<>>, NullError).markers]_vars

\* a cycle has completed with a marker, for a document text and a schema text
\* that both came after the initial ones
C15_Witness ==
  /\ lastOp = "validated"
  /\ markers # <<>>
  /\ text = DocBadExpression
  /\ schemaText = initialSchema

\* the callback has run to its end on a document
CycleApplied == call.fn = "ValidationCycle" /\ call.applied /\ ~call.fault

\* the errors the validator reports for the document of the call
ReportedErrors ==
  validate(JSONparse(call.schema).v, JSONparse(call.value).v, <<>>,
           Errors(<<>>, call.error)).errors

\* the key a token of a JSON pointer stands for
RECURSIVE UnescapePointer(_)
UnescapePointer(k) ==
  IF k = <<>> THEN <<>>
  ELSE IF Len(k) >= 2 /\ k[1] = "~" /\ k[2] = "1"
    THEN <<"/">> \o UnescapePointer(SubSeq(k, 3, Len(k)))
  ELSE IF Len(k) >= 2 /\ k[1] = "~" /\ k[2] = "0"
    THEN <<"~">> \o UnescapePointer(SubSeq(k, 3, Len(k)))
  ELSE <<Head(k)>> \o UnescapePointer(Tail(k))

\* the path a JSON pointer names
PointerSegments(p) ==
  With(Tail(Split(p, "/", 1, <<>>)), LAMBDA tokens :
    [i \in DOMAIN tokens |-> UnescapePointer(tokens[i])])

\* the span of the node of the text s at the path, following the members of
\* an object by key and the elements of an array by index
RECURSIVE SpanAt(_, _, _, _)
RECURSIVE SpanOfMember(_, _, _, _)
RECURSIVE SpanOfElement(_, _, _, _, _)
SpanAt(s, i0, path, k) ==
  With(SkipWs(s, i0), LAMBDA i :
    IF k > Len(path)
    THEN [found |-> TRUE, offset |-> i - 1,
          length |-> ParseValueAt(s, i).j - i]
    ELSE IF s[i] = "{" THEN SpanOfMember(s, i + 1, path, k)
    ELSE IF s[i] = "[" /\ IsIndexKey(path[k])
      THEN SpanOfElement(s, i + 1, IndexOf(path[k]), path, k)
    ELSE NotFound)

SpanOfMember(s, i0, path, k) ==
  With(SkipWs(s, i0), LAMBDA i :
    IF s[i] # DQ THEN NotFound
    ELSE With(ParseChars(s, i + 1, <<>>), LAMBDA key :
         With(SkipWs(s, key.j) + 1, LAMBDA v :
         With(SkipWs(s, ParseValueAt(s, v).j), LAMBDA e :
           IF key.v.s = path[k] THEN SpanAt(s, v, path, k + 1)
           ELSE IF s[e] = "," THEN SpanOfMember(s, e + 1, path, k)
           ELSE NotFound))))

SpanOfElement(s, i0, n, path, k) ==
  With(SkipWs(s, i0), LAMBDA i :
    IF s[i] = "]" THEN NotFound
    ELSE IF n = 0 THEN SpanAt(s, i, path, k + 1)
    ELSE With(SkipWs(s, ParseValueAt(s, i).j), LAMBDA e :
           IF s[e] = "," THEN SpanOfElement(s, e + 1, n - 1, path, k)
           ELSE NotFound))

\* one range for every error whose path is a node of the text, in the order
\* of the errors
RECURSIVE RangesOf(_, _, _)
RangesOf(errors, i, value) ==
  IF i > Len(errors) THEN <<>>
  ELSE With(SpanAt(value, 1, PointerSegments(errors[i].instancePath), 1),
            LAMBDA node :
         (IF node.found
          THEN <<[start |-> getPositionAt(value, node.offset),
                  end |-> getPositionAt(value, node.offset + node.length)]>>
          ELSE <<>>)
         \o RangesOf(errors, i + 1, value))

\* C16: the markers of a cycle are, in order, one marker for every violation
\* whose path is a node of the document text, with the span of that node as
\* its range; only a violation whose path is no node of the text has none.
C16_EveryLocatedViolationMarked ==
  CycleApplied =>
    [i \in DOMAIN call.markers |->
       [start |-> call.markers[i].start, end |-> call.markers[i].end]]
      = RangesOf(ReportedErrors, 1, call.value)

\* for every error the callback finds a node for, in the order of the
\* errors: the message with the detail of the check of the string the error
\* is about, for an error of the format expression, and the message of the
\* validator for any other
RECURSIVE OwnMessagesOf(_, _, _, _)
OwnMessagesOf(errors, i, value, d) ==
  IF i > Len(errors) THEN <<>>
  ELSE (IF findNodeAtLocation(value, 1,
             Tail(Split(errors[i].instancePath, "/", 1, <<>>)), 1).found
        THEN <<IF errors[i].keyword = "format" /\ errors[i].format = FExpression
               THEN With(parse(At(d, PointerSegments(errors[i].instancePath)).s),
                         LAMBDA r :
                      [prefix |-> "Invalid expression: ",
                       text |-> r.message.text, arg |-> r.message.arg,
                       keyword |-> ""])
               ELSE [prefix |-> "", text |-> errors[i].message.text,
                     arg |-> errors[i].message.arg,
                     keyword |-> errors[i].keyword]>>
        ELSE <<>>)
       \o OwnMessagesOf(errors, i + 1, value, d)

\* C20: in a cycle with any number of violations, the marker of a violation
\* of the format expression shows the syntax error of the check of that
\* violation's own string, and the marker of any other violation shows the
\* message of the validator.
C20_EachMarkerOwnDetail ==
  CycleApplied =>
    [i \in DOMAIN call.markers |-> call.markers[i].message]
      = OwnMessagesOf(ReportedErrors, 1, call.value, JSONparse(call.value).v)

\* the document text is not the one App starts with
TextChanged == text # JSONstringify(JSONparse(initialJson).v)

\* C17: after a change of the document text the canonical value and the
\* parse-error message change only when the quiet period has passed since
\* the last change of the text.
C17_ParseAfterQuietPeriod ==
  [][(TextChanged /\ (data' # data \/ parseError' # parseError)) =>
       sinceTextChange >= Delay]_vars

\* the timers of the effect that validates
ValidationTimers(set) == {t \in set : t.effect = "validation"}

\* the effect that validates cancels the timer that is pending and starts
\* one for the texts of the render
C18_RestartStep ==
  lastOp' = "validationEffect" =>
    ValidationTimers(timers')
      = IF monaco THEN {Timer("validation", text, schemaText)} ELSE {}

\* the cycle that runs is the one of the last document text and schema text,
\* after the quiet period
C18_CycleStep ==
  CycleRuns =>
    /\ \E t \in ValidationTimers(timers) \ timers' :
         t.value = text /\ t.schemaText = schemaText /\ t.left = 0
    /\ sinceTextChange >= Delay

\* C18: at most one validation timer is pending; a change that arrives while
\* one is pending cancels it and starts a new one; the validation cycle that
\* runs uses the last document text and schema text, and none runs within a
\* burst of changes.
C18_OneTimerLastWriteWins ==
  /\ [](Cardinality(ValidationTimers(timers)) <= 1)
  /\ [][C18_RestartStep /\ C18_CycleStep]_vars

\* the validation timer has just been started again while the timer of the
\* language service, set together with the one it replaces or earlier, is
\* still pending
C18_Witness ==
  /\ lastOp = "validationEffect"
  /\ \E t \in timers, u \in timers :
       /\ t.effect = "validation" /\ t.left = Delay
       /\ u.effect = "language" /\ u.left < Delay

\* C19: a change of the schema text alone neither cancels nor restarts the
\* validation timer that is pending for the document text, and a change of
\* the document text alone leaves the timer of the schema text pending.
C19_TimersIndependent ==
  [][/\ (/\ lastOp' = "validationEffect"
         /\ valDeps.run /\ valDeps.value = text /\ valDeps.monaco = monaco)
          => ValidationTimers(timers) \subseteq timers'
     /\ (/\ lastOp' = "languageEffect" /\ langDeps.run)
          => (langDeps.schemaText # schemaText \/ langDeps.monaco # monaco)]_vars

\* the token is an opening double quote, any characters, and a closing double
\* quote that is another character than the opening one
IsQuotedPair(t) == Len(t) >= 2 /\ t[1] = DQ /\ t[Len(t)] = DQ

\* C21: parseInputValue gives a string exactly when the trimmed token is
\* wrapped in a pair of double quotes, an opening one and a distinct closing
\* one; the value is then the characters strictly between the two, verbatim;
\* the token that is one double quote alone is rejected.
C21_StringIffQuotedPair ==
  LeafApplied =>
    With(Trim(call.input), LAMBDA t :
      /\ (call.success /\ call.value.t = "string") <=> IsQuotedPair(t)
      /\ (call.success /\ call.value.t = "string")
           => call.value.s = SubSeq(t, 2, Len(t) - 1)
      /\ t = <<DQ>> => ~call.success)

\* the nodes of the list whose expansion, as Node computes it, differs
\* between the maps before and after
Flipped(nodes, before, after) ==
  {j \in 1..Len(nodes) :
     isExpanded(after, nodes[j]) # isExpanded(before, nodes[j])}

\* the leaves of the list that EditableNode renders in edit mode
InEditMode(nodes, id) ==
  {j \in 1..Len(nodes) : ~nodes[j].hasChildren /\ nodes[j].id = id}

\* C22: in the flattened list two nodes of different paths have different
\* ids, also when a key holds the separator '.'; so toggleNode(id) flips the
\* expansion of exactly one node, and at most one leaf is in edit mode.
C22_DistinctIds ==
  With(flattenedNodes, LAMBDA nodes :
    /\ \A i, j \in 1..Len(nodes) :
         nodes[i].path # nodes[j].path => nodes[i].id # nodes[j].id
    /\ \A i \in 1..Len(nodes) :
         Cardinality(Flipped(nodes, expanded,
                             toggleNode(expanded, nodes[i].id))) = 1
    /\ editingId # NoId => Cardinality(InEditMode(nodes, editingId)) <= 1)

\* C23: a leaf is in edit mode, and a tree edit is committed, only while the
\* parse error is null; the text that a committed tree edit replaces parses,
\* and it parses to a value deeply equal to the data the edit is applied to.
C23_Step ==
  /\ (editingId # NoId /\ lastOp' \in CommitOps) => parseError = NoError
  /\ (editingId # NoId /\ lastOp' = "commit") =>
       With(JSONparse(text), LAMBDA r :
         /\ r.ok
         /\ DeepEqual(r.v, data)
         /\ lastEdit'.base = data)

\* C23: every step that commits a tree edit starts with a null parse error
\* and with a text that parses to a value deeply equal to data.
C23_EditReplacesParsableText == [][C23_Step]_vars

\* a tree edit of a composite document has been committed while no parse
\* error was set: data differs from the data before the edit, and the text
\* is its serialisation
C23_Witness ==
  /\ lastOp = "commit"
  /\ lastEdit.active
  /\ IsComposite(lastEdit.base)
  /\ parseError = NoError
  /\ text = JSONstringify(data)
  /\ ~DeepEqual(data, lastEdit.base)

====
